---- MODULE Spec2Model ----
(***************************************************************************)
(* A model of the wandb-scripts command-line tools:                        *)
(*   wandb_fork.py    fork a run at a step, then re-init it with resume    *)
(*   wandb_update.py  find / delete files and artifacts of selected runs   *)
(*   wandb_sync.py    download / upload runs and checkpoints               *)
(* One behaviour is one invocation of one tool.  Remote answers (the run   *)
(* collection, a run's history, files), the local filesystem and the       *)
(* user's answers at the prompts are inputs drawn from bounded sets.       *)
(***************************************************************************)
EXTENDS Integers, Sequences, FiniteSets, TLC

VARIABLES
    tool,        \* which script runs: "fork", "update", "sync"
    pc,          \* position in the script
    args,        \* the argparse Namespace
    runs,        \* api.runs(...): the project's run collection
    err,         \* the exception that ended the invocation, or None
    response,    \* the last string returned by input()
    effects,     \* side-effecting calls made so far, in order
    printed,     \* what was printed for the user to confirm, in order
    run,         \* wandb_fork: the resolved run
    history,     \* wandb_fork: rows returned by run.scan_history()
    steps,       \* wandb_fork: the matching steps
    step,        \* wandb_fork: the step to fork at
    step_reduction,  \* wandb_fork: flag set when several steps matched
    all_delete_files,      \* wandb_update: files found for deletion
    all_delete_artifacts,  \* wandb_update: artifacts found for deletion
    delete_objs,     \* remove_latest_file_or_artifact: its argument
    returned,        \* remove_latest_file_or_artifact: its return value
    keep_runs,       \* wandb_sync: the runs get_matching_runs returns
    fs,              \* wandb_sync: the run directories on disk
    all_wandb_run_folders,  \* wandb_sync: per kept directory, its run-* folders
    all_wandb_dirs,  \* wandb_sync: the kept directories (positions in fs)
    commands,        \* wandb_sync: the wandb sync commands built
    idx              \* wandb_sync: position in the loop being executed

vars == <<tool, pc, args, runs, err, response, effects, printed,
          run, history, steps, step, step_reduction,
          all_delete_files, all_delete_artifacts, delete_objs, returned,
          keep_runs, fs, all_wandb_run_folders, all_wandb_dirs, commands, idx>>

forkVars == <<run, history, steps, step, step_reduction>>

updateVars == <<all_delete_files, all_delete_artifacts>>

keepLatestVars == <<delete_objs, returned>>

syncVars == <<keep_runs, fs, all_wandb_run_folders, all_wandb_dirs, commands, idx>>

\* what wandb_fork.py, wandb_update.py, wandb_sync.py never touch
nonForkVars == <<updateVars, keepLatestVars, syncVars>>
nonUpdateVars == <<forkVars, keepLatestVars, syncVars>>
nonSyncVars == <<forkVars, updateVars, keepLatestVars>>

None == "None"

(***************************************************************************)
(* Bounds                                                                  *)
(***************************************************************************)
MaxRuns == 2
MaxRows == 2
MaxFiles == 2
MaxArtifacts == 1
MaxObjs == 3

(***************************************************************************)
(* Strings are sequences of one-character strings, so that lower() and     *)
(* re.search() compute on characters.                                      *)
(***************************************************************************)
RECURSIVE SeqsUpTo(_, _)
SeqsUpTo(S, n) ==
    IF n = 0 THEN {<<>>}
    ELSE LET shorter == SeqsUpTo(S, n - 1)
         IN  shorter \cup {Append(s, x) : s \in shorter, x \in S}

Range(s) == {s[i] : i \in 1..Len(s)}

\* str.lower() on the characters that occur in the answers
LowerChar(c) ==
    CASE c = "Y" -> "y"
      [] c = "E" -> "e"
      [] c = "S" -> "s"
      [] c = "N" -> "n"
      [] OTHER   -> c

Lower(s) == [i \in 1..Len(s) |-> LowerChar(s[i])]

\* re.search(pattern, s) for patterns made of literal characters, "." (any
\* character), a leading "^" and a trailing "$"
ReSearch(pattern, s) ==
    LET atStart == Len(pattern) > 0 /\ pattern[1] = "^"
        body1   == IF atStart THEN Tail(pattern) ELSE pattern
        atEnd   == Len(body1) > 0 /\ body1[Len(body1)] = "$"
        body    == IF atEnd THEN SubSeq(body1, 1, Len(body1) - 1) ELSE body1
    IN  \E off \in 0..Len(s) :
          /\ off + Len(body) <= Len(s)
          /\ atStart => off = 0
          /\ atEnd => off + Len(body) = Len(s)
          /\ \A k \in 1..Len(body) : body[k] = "." \/ body[k] = s[off + k]

\* what the user may type at a prompt
Responses ==
    { <<"y">>, <<"Y">>, <<"y","e","s">>, <<"Y","e","S">>, <<"n">>, <<>> }

(***************************************************************************)
(* The remote project                                                      *)
(***************************************************************************)
RunIdPool == <<"r1", "r2", "r3", "r4", "r5">>

RunNames == { <<"a">>, <<"a","b">> }

\* run ids are unique within a project, run names are not
RunCollections(names) ==
    UNION { [1..n -> names] : n \in 0..MaxRuns }

MkRuns(nameSeq) ==
    [i \in 1..Len(nameSeq) |-> [id |-> RunIdPool[i], name |-> nameSeq[i]]]

RunNamePool == << <<"a">>, <<"a","b">>, <<"b">>, <<"b","a">>, <<"b","b">> >>
UserPool == <<"u1", "u2", "u1", "u2", "u1">>

\* a row of a run's history is a mapping from metric name to value that
\* always holds "_step"; row i carries _step = 10*i and the metric "epoch"
\* is present or not
RowKinds == {"no_epoch", "epoch1", "epoch2"}

MkRow(i, kind) ==
    CASE kind = "epoch1" -> [_step |-> 10 * i, epoch |-> 1]
      [] kind = "epoch2" -> [_step |-> 10 * i, epoch |-> 2]
      [] OTHER           -> [_step |-> 10 * i]

Histories ==
    { [i \in 1..Len(k) |-> MkRow(i, k[i])] :
        k \in UNION { [1..n -> RowKinds] : n \in 0..MaxRows } }

\* an option of string type that was not given (Python's None); the empty
\* string is not among the values enumerated for such options
NoName == <<>>

NoRun == [id |-> None, name |-> NoName]
NoErr == [type |-> "none", line |-> 0, msg |-> <<>>]
NoArgs == [prog |-> None]

\* an exception, with the source line of the statement that raises it
Raise(type, line, msg) == [type |-> type, line |-> line, msg |-> msg]

(***************************************************************************)
(* wandb_fork.py                                                           *)
(***************************************************************************)
ForkedValues == {-3, 1}
MetricNames == {"step", "epoch"}
ReductionFuncs == {None, "min", "max"}

ForkArgs ==
    [ prog : {"wandb_fork"},
      wandb_entity : {None, "ent"},
      wandb_project : {"proj"},
      run_id : {None} \cup {RunIdPool[i] : i \in 1..(MaxRuns + 1)},
      run_name : {NoName} \cup RunNames,
      forked_value : ForkedValues,
      forked_metric_name : MetricNames,
      matching_steps_reduction_func : ReductionFuncs,
      resume : {"auto"},
      no_resume : BOOLEAN ]

\* parse_args: the checks made after parser.parse_args()
ForkParseError(a) ==
    IF (IF a.run_id # None THEN 1 ELSE 0) + (IF a.run_name # NoName THEN 1 ELSE 0) # 1
    THEN Raise("RuntimeError", 149, <<"Must specify exactly one of --run-id and --run-name">>)
    ELSE IF a.wandb_entity = None \/ a.wandb_entity = ""
    THEN Raise("RuntimeError", 152, <<"Missing --wandb-entity">>)
    ELSE IF a.wandb_project = None \/ a.wandb_project = ""
    THEN Raise("RuntimeError", 155, <<"Missing --wandb-project">>)
    ELSE NoErr

\* restricted to valid selectors and entity unless the error is the point:
\* one representative Namespace per parse error
ForkArgChoices ==
    { a \in ForkArgs :
        \/ ForkParseError(a) = NoErr
        \/ /\ a.forked_value = 1 /\ a.forked_metric_name = "step"
           /\ a.matching_steps_reduction_func = None /\ ~a.no_resume
           /\ a.run_name = NoName }

ForkParseArgs ==
    /\ tool = "fork" /\ pc = "parse_args"
    /\ \E a \in ForkArgChoices :
         /\ args' = a
         /\ err' = ForkParseError(a)
         /\ pc' = IF ForkParseError(a) = NoErr THEN "api_runs" ELSE "error"
    /\ UNCHANGED <<nonForkVars, tool, runs, response, effects, printed, forkVars>>

ForkApiRuns ==
    /\ tool = "fork" /\ pc = "api_runs"
    /\ \E names \in RunCollections(RunNames) : runs' = MkRuns(names)
    /\ pc' = "resolve_run"
    /\ UNCHANGED <<nonForkVars, tool, args, err, response, effects, printed, forkVars>>

\* variant: the name is searched in run.name instead of compared with it
MatchingRunsSearch(rs, a) ==
    IF a.run_id # None
    THEN SelectSeq(rs, LAMBDA r : r.id = a.run_id)
    ELSE SelectSeq(rs, LAMBDA r : ReSearch(a.run_name, r.name))

\* the runs of the collection that the selector matches, in project order
MatchingRuns(rs, a) ==
    IF a.run_id # None
    THEN SelectSeq(rs, LAMBDA r : r.id = a.run_id)
    ELSE SelectSeq(rs, LAMBDA r : r.name = a.run_name)

ResolveRunError(rs, a) ==
    IF Len(MatchingRuns(rs, a)) = 1 THEN NoErr
    ELSE IF a.run_id # None
    THEN Raise("RuntimeError", 174,
               <<"Found", Len(MatchingRuns(rs, a)), "runs with run.id ==", a.run_id>>)
    ELSE Raise("RuntimeError", 187,
               <<"Found", Len(MatchingRuns(rs, a)), "runs with run.name ==", a.run_name>>)

ForkResolveRun ==
    /\ tool = "fork" /\ pc = "resolve_run"
    /\ err' = ResolveRunError(runs, args)
    /\ IF Len(MatchingRuns(runs, args)) = 1
       THEN run' = MatchingRuns(runs, args)[1] /\ pc' = "resolve_step"
       ELSE run' = run /\ pc' = "error"
    /\ UNCHANGED <<nonForkVars, tool, args, runs, response, effects, printed,
                   history, steps, step, step_reduction>>

\* variant: every row that holds the metric matches, whatever its value
MatchingStepsAnyValue(rows, metric, value) ==
    LET hit == SelectSeq(rows, LAMBDA row : metric \in DOMAIN row)
    IN  [i \in 1..Len(hit) |-> hit[i]._step]

\* variant: a row matches when its value is at least the target
MatchingStepsAtLeast(rows, metric, value) ==
    LET hit == SelectSeq(rows, LAMBDA row :
                   metric \in DOMAIN row /\ row[metric] >= value)
    IN  [i \in 1..Len(hit) |-> hit[i]._step]

\* the steps of the rows that hold the metric with exactly the value
MatchingSteps(rows, metric, value) ==
    LET hit == SelectSeq(rows, LAMBDA row :
                   metric \in DOMAIN row /\ row[metric] = value)
    IN  [i \in 1..Len(hit) |-> hit[i]._step]

Max(s) == CHOOSE x \in Range(s) : \A y \in Range(s) : y <= x
Min(s) == CHOOSE x \in Range(s) : \A y \in Range(s) : x <= y

\* variant: min and max exchanged
ReduceStepsSwapped(ss, reduce) ==
    IF reduce = "max" THEN Min(ss) ELSE Max(ss)

\* the reduction over several matching steps, for reduce "max" or "min"
ReduceSteps(ss, reduce) ==
    IF reduce = "max" THEN Max(ss) ELSE Min(ss)

StepError(ss, a) ==
    IF Len(ss) = 1 THEN NoErr
    ELSE IF Len(ss) > 1
    THEN IF a.matching_steps_reduction_func \in {"max", "min"} THEN NoErr
         ELSE Raise("RuntimeError", 218,
                    <<"Found", Len(ss), "steps; must specify --matching-steps-reduction-func">>)
    ELSE Raise("RuntimeError", 229, <<"Failed to find steps corresponding to metric">>)

ResolvedStep(ss, a) ==
    IF Len(ss) = 1 THEN ss[1]
    ELSE ReduceSteps(ss, a.matching_steps_reduction_func)

\* variant: a negative value is clamped to step 0
IdentityStepClamped(a) ==
    IF a.forked_value < 0 THEN 0 ELSE a.forked_value

\* step = args.forked_value
IdentityStep(a) == a.forked_value

\* metric "step": the value itself, run.scan_history() is not called
ForkStepIdentity ==
    /\ tool = "fork" /\ pc = "resolve_step"
    /\ args.forked_metric_name = "step"
    /\ step' = IdentityStep(args)
    /\ pc' = "check_dir"
    /\ UNCHANGED <<nonForkVars, tool, args, runs, err, response, effects, printed,
                   run, history, steps, step_reduction>>

\* any other metric: scan the rows of the run
ForkScanHistory ==
    /\ tool = "fork" /\ pc = "resolve_step"
    /\ args.forked_metric_name # "step"
    /\ \E rows \in Histories :
         LET ss == MatchingSteps(rows, args.forked_metric_name, args.forked_value)
         IN  /\ history' = <<rows>>
             /\ steps' = ss
             /\ step_reduction' = (Len(ss) > 1)
             /\ err' = StepError(ss, args)
             /\ IF StepError(ss, args) = NoErr
                THEN step' = ResolvedStep(ss, args) /\ pc' = "check_dir"
                ELSE step' = step /\ pc' = "error"
    /\ UNCHANGED <<nonForkVars, tool, args, runs, response, effects, printed, run>>

\* init_kwargs: fork_from is f"{run.id}?_step={step}"
InitKwargs(a, r, st) ==
    [ project |-> a.wandb_project,
      entity |-> a.wandb_entity,
      fork_from |-> <<r.id, "?_step=", st>>,
      name |-> "forked_run_name",
      dir |-> "forked_run_dir" ]

\* variant: fork_from is not popped from the copy of init_kwargs
ResumeKwargsKeepsForkFrom(a, r, st) ==
    [ project |-> a.wandb_project,
      entity |-> a.wandb_entity,
      fork_from |-> <<r.id, "?_step=", st>>,
      name |-> "forked_run_name",
      dir |-> "forked_run_dir",
      resume |-> a.resume ]

\* resume_kwargs: init_kwargs with fork_from popped and resume added
ResumeKwargs(a, r, st) ==
    [ project |-> a.wandb_project,
      entity |-> a.wandb_entity,
      name |-> "forked_run_name",
      dir |-> "forked_run_dir",
      resume |-> a.resume ]

Call(op, target, kwargs) == [op |-> op, target |-> target, kwargs |-> kwargs]

\* forked_run_dir.exists() is an input; parse_args defines no
\* --create-forked-run-dir, so a missing directory ends in AttributeError
\* before mkdir; otherwise the fork and its init kwargs are printed
ForkCheckDir ==
    /\ tool = "fork" /\ pc = "check_dir"
    /\ \E dir_exists \in BOOLEAN :
         IF dir_exists
         THEN /\ printed' = Append(printed,
                     [what |-> "fork", objs |-> <<InitKwargs(args, run, step)>>])
              /\ pc' = "confirm_fork"
              /\ err' = err
         ELSE /\ printed' = printed
              /\ pc' = "error"
              /\ err' = Raise("AttributeError", 239, <<"create_forked_run_dir">>)
    /\ UNCHANGED <<nonForkVars, tool, args, runs, response, effects, forkVars>>

\* variant that takes an empty response as the default "yes"
ForkAffirmativeOrEmpty(r) == Lower(r) \in { <<"y">>, <<"y","e","s">>, <<>> }

\* response.lower() in ["y", "yes"]
ForkAffirmative(r) == Lower(r) \in { <<"y">>, <<"y","e","s">> }

\* input("Continue? (y/N): ") before the fork; anything else is exit(0)
ForkConfirm ==
    /\ tool = "fork" /\ pc = "confirm_fork"
    /\ \E r \in Responses :
         /\ response' = r
         /\ pc' = IF ForkAffirmative(r) THEN "init_fork" ELSE "exit"
    /\ UNCHANGED <<nonForkVars, tool, args, runs, err, effects, printed, forkVars>>

\* forked_run = wandb.init(**init_kwargs)
ForkInit ==
    /\ tool = "fork" /\ pc = "init_fork"
    /\ effects' = Append(effects, Call("init", "wandb", InitKwargs(args, run, step)))
    /\ pc' = IF args.no_resume THEN "done" ELSE "finish_fork"
    /\ UNCHANGED <<nonForkVars, tool, args, runs, err, response, printed, forkVars>>

\* forked_run.finish(...), then the resume kwargs are printed
ForkFinish ==
    /\ tool = "fork" /\ pc = "finish_fork"
    /\ effects' = Append(effects, Call("finish", "forked_run", <<>>))
    /\ printed' = Append(printed,
           [what |-> "resume", objs |-> <<ResumeKwargs(args, run, step)>>])
    /\ pc' = "confirm_resume"
    /\ UNCHANGED <<nonForkVars, tool, args, runs, err, response, forkVars>>

\* the second input("Continue? (y/N): ")
ResumeConfirm ==
    /\ tool = "fork" /\ pc = "confirm_resume"
    /\ \E r \in Responses :
         /\ response' = r
         /\ pc' = IF ForkAffirmative(r) THEN "init_resume" ELSE "exit"
    /\ UNCHANGED <<nonForkVars, tool, args, runs, err, effects, printed, forkVars>>

\* resumed_run = wandb.init(**resume_kwargs)
ResumeInit ==
    /\ tool = "fork" /\ pc = "init_resume"
    /\ effects' = Append(effects, Call("init", "wandb", ResumeKwargs(args, run, step)))
    /\ pc' = "finish_resume"
    /\ UNCHANGED <<nonForkVars, tool, args, runs, err, response, printed, forkVars>>

\* resumed_run.finish(...)
ResumeFinish ==
    /\ tool = "fork" /\ pc = "finish_resume"
    /\ effects' = Append(effects, Call("finish", "resumed_run", <<>>))
    /\ pc' = "done"
    /\ UNCHANGED <<nonForkVars, tool, args, runs, err, response, printed, forkVars>>

NextFork ==
    \/ ForkParseArgs
    \/ ForkApiRuns
    \/ ForkResolveRun
    \/ ForkStepIdentity
    \/ ForkScanHistory
    \/ ForkCheckDir
    \/ ForkConfirm
    \/ ForkInit
    \/ ForkFinish
    \/ ResumeConfirm
    \/ ResumeInit
    \/ ResumeFinish

(***************************************************************************)
(* wandb_update.py                                                         *)
(***************************************************************************)
\* updatedAt / updated_at strings "2024-01-01T00:MM:SSZ", written <<MM, SS>>
Timestamps == { <<0, 59>>, <<1, 0>>, <<1, 1>> }

\* datetime.strptime(s, "%Y-%m-%dT%H:%M:%SZ"), as seconds
Strptime(ts) == 60 * ts[1] + ts[2]

FileNamePool == << <<"a">>, <<"a","b">>, <<"b">>, <<"b","a">> >>
ArtifactNamePool == << <<"m">>, <<"m","b">>, <<"b">>, <<"b","m">> >>

\* a File of a run; within a run the names are distinct, so two File objects
\* of one listing are equal only when they are the same object
File(runId, name, ts) ==
    [kind |-> "file", run |-> runId, name |-> name, updatedAt |-> ts]

Artifact(runId, name, ts) ==
    [kind |-> "artifact", run |-> runId, name |-> name, updated_at |-> ts]

\* getattr(f, updated_attr)
UpdatedAttr(f) == IF f.kind = "file" THEN f.updatedAt ELSE f.updated_at

\* listings of at most n objects with distinct names, <<name, timestamp>>:
\* the first k names of the pool, each with any of the timestamps
Listings(pool, stamps, n) ==
    UNION { { [i \in 1..k |-> <<pool[i], t[i]>>] : t \in [1..k -> stamps] }
            : k \in 0..n }

\* the project as wandb_update.py sees it: run.files() and
\* run.logged_artifacts() are part of each run
MkUpdateRun(i, fl, al) ==
    [ id |-> RunIdPool[i],
      name |-> RunNamePool[i],
      user |-> [username |-> UserPool[i]],
      files |-> [k \in 1..Len(fl) |-> File(RunIdPool[i], fl[k][1], fl[k][2])],
      artifacts |-> [k \in 1..Len(al) |-> Artifact(RunIdPool[i], al[k][1], al[k][2])] ]

\* the first run has any listing; every further run either lists the same
\* names and timestamps under its own id, or has no files and artifacts
UpdateProjects ==
    UNION { { [i \in 1..n |-> IF i = 1 \/ same[i] THEN MkUpdateRun(i, fl, al)
                                ELSE MkUpdateRun(i, <<>>, <<>>)] :
                fl \in Listings(FileNamePool, {<<0, 59>>, <<1, 0>>}, MaxFiles),
                al \in Listings(ArtifactNamePool, {<<1, 0>>}, MaxArtifacts),
                same \in [1..n -> BOOLEAN] }
            : n \in 0..MaxRuns }

UpdateArgs ==
    [ prog : {"wandb_update"},
      wandb_entity : {None, "ent"},
      wandb_project : {"proj"},
      username : {None},
      delete_filename_regex : { <<>>, << <<"a">> >>, << <<"a">>, <<"b">> >> },
      delete_keep_latest : BOOLEAN,
      delete_artifact_regex : { <<>>, << <<"m">> >> },
      find_filename_regex : { <<>>, << <<"b">> >> },
      find_artifact_regex : { <<>> },
      skip_run_ids : { <<>>, <<"r1">> },
      select_run_ids : { <<>> },
      skip_run_names_regex : { <<>> },
      select_run_names_regex : { <<>> },
      dry_run : BOOLEAN ]

\* parse_args: the checks made after parser.parse_args()
UpdateParseError(a) ==
    IF a.wandb_entity = None
    THEN Raise("RuntimeError", 147, <<"Missing --wandb-entity">>)
    ELSE IF a.wandb_project = None
    THEN Raise("RuntimeError", 150, <<"Missing --wandb-project">>)
    ELSE IF a.wandb_entity = ""
    THEN Raise("RuntimeError", 153, <<"Found empty string for --wandb-entity">>)
    ELSE IF a.wandb_project = ""
    THEN Raise("RuntimeError", 156, <<"Found empty string for --wandb-project">>)
    ELSE NoErr

FindMode(a) ==
    Len(a.find_filename_regex) > 0 \/ Len(a.find_artifact_regex) > 0

DeleteMode(a) ==
    Len(a.delete_filename_regex) > 0 \/ Len(a.delete_artifact_regex) > 0

\* one representative Namespace for the parse error; --skip-run-ids is not
\* combined with the find options
UpdateArgChoices ==
    { a \in UpdateArgs :
        \/ /\ UpdateParseError(a) = NoErr
           /\ FindMode(a) => a.skip_run_ids = <<>>
        \/ /\ a.delete_filename_regex = <<>> /\ a.delete_artifact_regex = <<>>
           /\ a.find_filename_regex = <<>> /\ a.skip_run_ids = <<>>
           /\ ~a.delete_keep_latest /\ ~a.dry_run }

UpdateParseArgs ==
    /\ tool = "update" /\ pc = "parse_args"
    /\ \E a \in UpdateArgChoices :
         /\ args' = a
         /\ err' = UpdateParseError(a)
         /\ pc' = IF UpdateParseError(a) # NoErr THEN "error"
                  ELSE IF FindMode(a) THEN "find_all_objects"
                  ELSE IF DeleteMode(a) THEN "delete_objects"
                  ELSE "done"
    /\ UNCHANGED <<nonUpdateVars, tool, runs, response, effects, printed, updateVars>>

AnySearch(regexes, name) == \E k \in 1..Len(regexes) : ReSearch(regexes[k], name)

\* variant: a run id given in --select-run-ids is kept before the skip
\* filters are looked at
FilterRunsSelectFirst(rs, a) ==
    SelectSeq(rs, LAMBDA r :
        \/ Len(a.select_run_ids) > 0 /\ r.id \in Range(a.select_run_ids)
        \/ /\ ~(Len(a.skip_run_ids) > 0 /\ r.id \in Range(a.skip_run_ids))
           /\ ~(Len(a.select_run_ids) > 0 /\ r.id \notin Range(a.select_run_ids))
           /\ ~(Len(a.skip_run_names_regex) > 0 /\ AnySearch(a.skip_run_names_regex, r.name))
           /\ ~(Len(a.select_run_names_regex) > 0
                  /\ ~AnySearch(a.select_run_names_regex, r.name))
           /\ ~(a.username # None /\ r.user.username # a.username))

\* filter_runs: the runs that pass every filter, in project order
FilterRuns(rs, a) ==
    SelectSeq(rs, LAMBDA r :
        /\ ~(Len(a.skip_run_ids) > 0 /\ r.id \in Range(a.skip_run_ids))
        /\ ~(Len(a.select_run_ids) > 0 /\ r.id \notin Range(a.select_run_ids))
        /\ ~(Len(a.skip_run_names_regex) > 0 /\ AnySearch(a.skip_run_names_regex, r.name))
        /\ ~(Len(a.select_run_names_regex) > 0
               /\ ~AnySearch(a.select_run_names_regex, r.name))
        /\ ~(a.username # None /\ r.user.username # a.username))

\* variant: an unstable sort, an element is placed before those of equal key
InsertDescUnstable(sorted, x) ==
    LET k == Cardinality({ i \in 1..Len(sorted) : sorted[i].datetime > x.datetime })
    IN  SubSeq(sorted, 1, k) \o <<x>> \o SubSeq(sorted, k + 1, Len(sorted))

\* sorted(datetimes, key=lambda x: x.datetime, reverse=True): a stable sort,
\* elements with equal keys keep their input order
InsertDesc(sorted, x) ==
    LET k == Cardinality({ i \in 1..Len(sorted) : sorted[i].datetime >= x.datetime })
    IN  SubSeq(sorted, 1, k) \o <<x>> \o SubSeq(sorted, k + 1, Len(sorted))

RECURSIVE SortedDesc(_)
SortedDesc(dts) ==
    IF Len(dts) = 0 THEN <<>>
    ELSE InsertDesc(SortedDesc(SubSeq(dts, 1, Len(dts) - 1)), dts[Len(dts)])

\* variant: the sort is ascending, the oldest object comes first
LastModFileOldest(objs) ==
    IF Len(objs) = 1 THEN objs[1]
    ELSE LET minT == Min([i \in 1..Len(objs) |-> Strptime(UpdatedAttr(objs[i]))])
         IN  objs[CHOOSE i \in 1..Len(objs) :
                    /\ Strptime(UpdatedAttr(objs[i])) = minT
                    /\ \A j \in 1..(i - 1) : Strptime(UpdatedAttr(objs[j])) # minT]

\* last_mod_file of remove_latest_file_or_artifact
LastModFile(objs) ==
    IF Len(objs) = 1 THEN objs[1]
    ELSE LET datetimes == [i \in 1..Len(objs) |->
                 [file |-> objs[i], datetime |-> Strptime(UpdatedAttr(objs[i]))]]
         IN  SortedDesc(datetimes)[1].file

\* remove_latest_file_or_artifact: [f for f in delete_objs if f != last_mod_file];
\* the assertion holds when exactly one element was dropped
RemoveLatest(objs) ==
    SelectSeq(objs, LAMBDA f : f # LastModFile(objs))

RemoveLatestAssertion(objs) == Len(RemoveLatest(objs)) = Len(objs) - 1

\* find_objects
FindObjects(objects, regex, remove_latest) ==
    LET found_objs == SelectSeq(objects, LAMBDA f : ReSearch(regex, f.name))
    IN  IF Len(found_objs) > 0 /\ remove_latest
        THEN RemoveLatest(found_objs)
        ELSE found_objs

RECURSIVE Flatten(_)
Flatten(ss) == IF Len(ss) = 0 THEN <<>> ELSE Head(ss) \o Flatten(Tail(ss))

\* the loops of delete_objects / find_all_objects: for every run, for every
\* regex, extend the list with find_objects(...)
FoundIn(rs, attr, regexes, remove_latest) ==
    Flatten([i \in 1..Len(rs) |->
        Flatten([k \in 1..Len(regexes) |->
            FindObjects(rs[i][attr], regexes[k], remove_latest)])])

\* f.url of a file, f.qualified_name of an artifact
ObjStr(f) == <<f.run, f.name>>

\* variant that prints the files only
ObjStrsFilesOnly(files, artifacts) ==
    [i \in 1..Len(files) |-> ObjStr(files[i])]

ObjStrs(files, artifacts) ==
    [i \in 1..Len(files) |-> ObjStr(files[i])] \o
    [i \in 1..Len(artifacts) |-> ObjStr(artifacts[i])]

\* api.runs(): the same project on every call of one invocation
ProjectAnswers == IF pc = "delete_objects" /\ FindMode(args) THEN {runs} ELSE UpdateProjects

\* find_all_objects: prints what it found, touches nothing
UpdateFindAll ==
    /\ tool = "update" /\ pc = "find_all_objects"
    /\ \E rs \in ProjectAnswers :
         LET current_runs == FilterRuns(rs, args)
             ff == FoundIn(current_runs, "files", args.find_filename_regex, FALSE)
             fa == FoundIn(current_runs, "artifacts", args.find_artifact_regex, FALSE)
         IN  /\ runs' = rs
             /\ printed' = IF Len(ff) + Len(fa) = 0 THEN printed
                           ELSE Append(printed, [what |-> "found", objs |-> ObjStrs(ff, fa)])
    /\ pc' = IF DeleteMode(args) THEN "delete_objects" ELSE "done"
    /\ UNCHANGED <<nonUpdateVars, tool, args, err, response, effects, updateVars>>

\* variant: the prompt is reached under --dry-run as well
AfterEnumerateIgnoresDryRun(n, a) == IF n = 0 THEN "done" ELSE "confirm_delete"

\* where delete_objects goes once the list is printed: nothing found or
\* --dry-run ends it, otherwise the user is asked
AfterEnumerate(n, a) == IF n = 0 \/ a.dry_run THEN "done" ELSE "confirm_delete"

\* delete_objects up to the prompt: enumerate and print what would be deleted
DeleteEnumerate ==
    /\ tool = "update" /\ pc = "delete_objects"
    /\ \E rs \in ProjectAnswers :
         LET current_runs == FilterRuns(rs, args)
             df == FoundIn(current_runs, "files", args.delete_filename_regex,
                           args.delete_keep_latest)
             da == FoundIn(current_runs, "artifacts", args.delete_artifact_regex,
                           args.delete_keep_latest)
         IN  /\ runs' = rs
             /\ all_delete_files' = df
             /\ all_delete_artifacts' = da
             /\ printed' = IF Len(df) + Len(da) = 0 THEN printed
                           ELSE Append(printed, [what |-> "delete", objs |-> ObjStrs(df, da)])
             /\ pc' = AfterEnumerate(Len(df) + Len(da), args)
    /\ UNCHANGED <<nonUpdateVars, tool, args, err, response, effects>>

\* variant that takes "yes" as well, as the fork tool does
DeleteAffirmativeYes(r) == Lower(r) \in { <<"y">>, <<"y","e","s">> }

\* response.lower() == "y"
DeleteAffirmative(r) == Lower(r) = <<"y">>

\* input("Delete n files/artifacts? (y/N): ")
DeleteConfirm ==
    /\ tool = "update" /\ pc = "confirm_delete"
    /\ \E r \in Responses :
         /\ response' = r
         /\ pc' = IF DeleteAffirmative(r) THEN "delete_calls" ELSE "done"
    /\ UNCHANGED <<nonUpdateVars, tool, args, runs, err, effects, printed, updateVars>>

\* the delete calls of the two loops, in the order they are made
DeletePlan(files, artifacts) ==
    [i \in 1..Len(files) |-> Call("delete", files[i], [delete_aliases |-> FALSE])]
    \o [i \in 1..Len(artifacts) |-> Call("delete", artifacts[i], [delete_aliases |-> TRUE])]

\* variant: the loops go on after a call that failed
DeleteCallsMadeDespiteFailure(plan, failed) == plan

\* the calls made when call number 'failed' raises (0: none raises): the
\* exception leaves both loops
DeleteCallsMade(plan, failed) ==
    IF failed = 0 THEN plan ELSE SubSeq(plan, 1, failed)

\* f.delete() for every file, then f.delete(delete_aliases=True) for every
\* artifact; a delete is a remote call that answers or raises, and the
\* exception names the call that raised by its position in the two loops
DeleteCalls ==
    /\ tool = "update" /\ pc = "delete_calls"
    /\ LET plan == DeletePlan(all_delete_files, all_delete_artifacts)
       IN  \E failed \in 0..Len(plan) :
             /\ effects' = effects \o DeleteCallsMade(plan, failed)
             /\ IF failed = 0
                THEN pc' = "done" /\ err' = err
                ELSE /\ pc' = "error"
                     /\ err' = Raise("CommError",
                                     IF failed <= Len(all_delete_files) THEN 320 ELSE 323,
                                     <<"delete", failed>>)
    /\ UNCHANGED <<nonUpdateVars, tool, args, runs, response, printed, updateVars>>

NextUpdate ==
    \/ UpdateParseArgs
    \/ UpdateFindAll
    \/ DeleteEnumerate
    \/ DeleteConfirm
    \/ DeleteCalls

(***************************************************************************)
(* remove_latest_file_or_artifact on its own: any non-empty listing of     *)
(* files, or of artifacts, in any order                                    *)
(***************************************************************************)
KeepLatestInputs ==
    LET lists(pool) == { q \in SeqsUpTo(Range(pool) \X Timestamps, MaxObjs) :
                           /\ Len(q) > 0
                           /\ \A i, j \in 1..Len(q) : i # j => q[i][1] # q[j][1] }
    IN  { [k \in 1..Len(q) |-> File("r1", q[k][1], q[k][2])] : q \in lists(FileNamePool) }
        \cup
        { [k \in 1..Len(q) |-> Artifact("r1", q[k][1], q[k][2])] :
            q \in lists(ArtifactNamePool) }

RemoveLatestCall ==
    /\ tool = "remove_latest" /\ pc = "call"
    /\ IF RemoveLatestAssertion(delete_objs)
       THEN returned' = RemoveLatest(delete_objs) /\ err' = err /\ pc' = "returned"
       ELSE returned' = returned /\ pc' = "error"
            /\ err' = Raise("AssertionError", 194, <<"len(delete_objs) == num_delete_prev - 1">>)
    /\ UNCHANGED <<tool, args, runs, response, effects, printed, forkVars,
                   updateVars, syncVars, delete_objs>>

NextKeepLatest == RemoveLatestCall

(***************************************************************************)
(* wandb_sync.py                                                           *)
(***************************************************************************)
\* bounds of the local results directory and of --run-names
MaxDirs == 2
MaxFolders == 2
MaxKeywords == 2

\* keywords given to --run-names are regular expressions
Keywords == { <<"a">>, <<"b">>, <<"a","b">>, <<"^","a","$">>, <<".">> }

\* the projects the sync tool runs against: run i is named RunNamePool[i]
SyncProjects == { MkRuns([i \in 1..n |-> RunNamePool[i]]) : n \in 0..MaxRuns }

\* the command line of wandb_sync.py; run_names = NoName is an absent
\* --run-names, run_dirs is None or stands for the list of given directories
SyncArgs ==
    [prog : {"wandb_sync"},
     download_checkpoints : BOOLEAN, download_runs : BOOLEAN,
     upload_checkpoints : BOOLEAN, upload_runs : BOOLEAN,
     results_dir : {None, "results"}, run_dirs : {None, "dirs"},
     wandb_entity : {None, "e"}, wandb_project : {None, "p"},
     run_names : {NoName, << <<"a">> >>, << <<"a","b">> >>},
     force_run_name_match : BOOLEAN, remove_missing_symlinks : BOOLEAN,
     checkpoint_name : {None, "ckpt"}, wandb_local_prefix_path : {None},
     dry_run : BOOLEAN, overwrite_existing : BOOLEAN]

Flag(b) == IF b THEN 1 ELSE 0

\* variant: only more than one mode flag is refused
SyncParseErrorAtMostOne(a) ==
    LET num_flags_set == Flag(a.download_checkpoints) + Flag(a.download_runs)
                         + Flag(a.upload_checkpoints) + Flag(a.upload_runs)
    IN  IF num_flags_set > 1
        THEN Raise("ValueError", 224, <<"Must specify exactly one of">>)
        ELSE IF Flag(a.results_dir # None) + Flag(a.run_dirs # None) # 1
        THEN Raise("ValueError", 230, <<"Must specify exactly one of --results-dir, --run-dirs">>)
        ELSE IF a.wandb_entity = None
        THEN Raise("RuntimeError", 233, <<"Missing --wandb-entity">>)
        ELSE IF a.wandb_project = None
        THEN Raise("RuntimeError", 236, <<"Missing --wandb-project">>)
        ELSE NoErr

\* the checks at the end of parse_args
SyncParseError(a) ==
    LET num_flags_set == Flag(a.download_checkpoints) + Flag(a.download_runs)
                         + Flag(a.upload_checkpoints) + Flag(a.upload_runs)
    IN  IF num_flags_set # 1
        THEN Raise("ValueError", 224, <<"Must specify exactly one of">>)
        ELSE IF Flag(a.results_dir # None) + Flag(a.run_dirs # None) # 1
        THEN Raise("ValueError", 230, <<"Must specify exactly one of --results-dir, --run-dirs">>)
        ELSE IF a.wandb_entity = None
        THEN Raise("RuntimeError", 233, <<"Missing --wandb-entity">>)
        ELSE IF a.wandb_project = None
        THEN Raise("RuntimeError", 236, <<"Missing --wandb-project">>)
        ELSE NoErr

UploadMode(a) == a.upload_runs \/ a.upload_checkpoints

\* the upload command lines, the download command lines (the options that
\* only the other direction reads are left at their defaults), and one
\* command line for each way parse_args refuses
SyncArgChoices ==
    { a \in SyncArgs :
        /\ SyncParseError(a) = NoErr
        /\ UploadMode(a)
        /\ a.results_dir # None
        /\ ~a.overwrite_existing
        /\ a.force_run_name_match => a.run_names # NoName }
    \cup
    { a \in SyncArgs :
        /\ SyncParseError(a) = NoErr
        /\ ~UploadMode(a)
        /\ ~a.force_run_name_match /\ ~a.remove_missing_symlinks
        /\ a.run_names # << <<"a","b">> >> }
    \cup
    { a \in SyncArgs :
        /\ SyncParseError(a) # NoErr
        /\ ~a.download_checkpoints /\ ~a.download_runs
        /\ a.upload_checkpoints => a.upload_runs
        /\ a.run_dirs # None => a.upload_runs
        /\ a.run_names = NoName /\ ~a.force_run_name_match
        /\ ~a.remove_missing_symlinks /\ a.checkpoint_name = None /\ ~a.dry_run
        /\ ~a.overwrite_existing
        /\ (a.wandb_entity = None \/ a.wandb_project = None)
             => (a.upload_runs /\ ~a.upload_checkpoints /\ a.results_dir # None
                 /\ a.run_dirs = None)
        /\ a.wandb_entity = None => a.wandb_project # None }

SyncParseArgs ==
    /\ tool = "sync" /\ pc = "parse_args"
    /\ \E a \in SyncArgChoices :
         /\ args' = a
         /\ err' = SyncParseError(a)
         /\ pc' = IF SyncParseError(a) # NoErr THEN "error" ELSE "get_matching_runs"
    /\ UNCHANGED <<nonSyncVars, tool, runs, response, effects, printed, syncVars>>

\* keep_runs of get_matching_runs: for every keyword with exactly one
\* matching run, that run, in keyword order
RECURSIVE KeepRuns(_, _)
KeepRuns(rs, keywords) ==
    IF Len(keywords) = 0 THEN <<>>
    ELSE LET keyword == keywords[Len(keywords)]
             matching_runs == SelectSeq(rs, LAMBDA r : ReSearch(keyword, r.name))
             before == KeepRuns(rs, SubSeq(keywords, 1, Len(keywords) - 1))
         IN  IF Len(matching_runs) # 1 THEN before
             ELSE Append(before, matching_runs[1])

\* variant of the uniqueness check that compares with the runs kept
GetMatchingRunsErrorKept(rs, a) ==
    /\ a.run_names # NoName
    /\ LET keep_runs_ == KeepRuns(rs, a.run_names)
       IN  Cardinality({ keep_runs_[i].name : i \in 1..Len(keep_runs_) })
             # Len(keep_runs_)

\* len(set(keep_run_names)) != len(args.run_names)
GetMatchingRunsError(rs, a) ==
    /\ a.run_names # NoName
    /\ LET keep_runs_ == KeepRuns(rs, a.run_names)
       IN  Cardinality({ keep_runs_[i].name : i \in 1..Len(keep_runs_) })
             # Len(a.run_names)

\* what get_matching_runs returns when it does not raise
GetMatchingRuns(rs, a) ==
    IF a.run_names = NoName THEN rs ELSE KeepRuns(rs, a.run_names)

\* upload_runs and download_runs: runs, project_str = get_matching_runs(args)
SyncGetMatchingRuns ==
    /\ tool = "sync" /\ pc = "get_matching_runs"
    /\ \E rs \in SyncProjects :
         /\ runs' = rs
         /\ IF GetMatchingRunsError(rs, args)
            THEN /\ err' = Raise("ValueError", 265, <<"matched the same run">>)
                 /\ pc' = "error"
                 /\ keep_runs' = keep_runs
            ELSE /\ keep_runs' = GetMatchingRuns(rs, args)
                 /\ pc' = IF UploadMode(args) THEN "collect"
                          ELSE IF Len(GetMatchingRuns(rs, args)) = 0 THEN "done"
                          ELSE "download"
                 /\ err' = err
    /\ UNCHANGED <<nonSyncVars, tool, args, response, effects, printed,
                   fs, all_wandb_run_folders, all_wandb_dirs, commands, idx>>

\* what run.files() answers, with what Path(run_dir, name).exists() says of
\* each file: the first k names of the pool, each present locally or not
RemoteListings ==
    UNION { { [i \in 1..k |-> [name |-> FileNamePool[i], exists |-> e[i]]] :
                e \in [1..k -> BOOLEAN] } : k \in 0..MaxFiles }

\* variant: a file that exists is downloaded with replace whether or not
\* --overwrite-existing was given
DownloadAlwaysReplaces(a, r, name, exists) ==
    IF exists
    THEN IF ~a.dry_run
         THEN << Call("download", [run |-> r.id, name |-> name], [replace |-> TRUE]) >>
         ELSE <<>>
    ELSE IF ~a.dry_run
         THEN << Call("download", [run |-> r.id, name |-> name], [replace |-> FALSE]) >>
         ELSE <<>>

\* _download: the download calls made for one remote file
Download(a, r, name, exists) ==
    IF exists
    THEN IF a.overwrite_existing /\ ~a.dry_run
         THEN << Call("download", [run |-> r.id, name |-> name], [replace |-> TRUE]) >>
         ELSE <<>>
    ELSE IF ~a.dry_run
         THEN << Call("download", [run |-> r.id, name |-> name], [replace |-> FALSE]) >>
         ELSE <<>>

\* one iteration of the loop of download_runs over the runs; idx counts the
\* runs done and fs keeps, per run done, the remote files handed to
\* _download with what exists() said of each. Path(None, run.name) raises
\* TypeError; run.file(name) is a remote call that answers or raises
DownloadRun ==
    /\ tool = "sync" /\ pc = "download" /\ idx < Len(keep_runs)
    /\ LET r == keep_runs[idx + 1]
           mkdir == Call("mkdir", [run |-> r.id, name |-> r.name], [exist_ok |-> TRUE])
           goon(files) == /\ effects' = effects \o <<mkdir>> \o
                                 Flatten([k \in 1..Len(files) |->
                                   Download(args, r, files[k].name, files[k].exists)])
                          /\ fs' = Append(fs, files)
                          /\ idx' = idx + 1
                          /\ pc' = IF idx + 1 = Len(keep_runs) THEN "done" ELSE "download"
                          /\ err' = err
       IN  IF args.results_dir = None
           THEN /\ err' = Raise("TypeError", 290, <<"expected str, bytes or os.PathLike object, not NoneType">>)
                /\ pc' = "error"
                /\ UNCHANGED <<effects, idx, fs>>
           ELSE IF args.download_runs
           THEN \E files \in RemoteListings : goon(files)
           ELSE IF args.dry_run
           THEN goon(<<>>)
           ELSE \E answers, exists \in BOOLEAN :
                  IF answers
                  THEN goon(<< [name |-> args.checkpoint_name, exists |-> exists] >>)
                  ELSE /\ err' = Raise("Exception", 312, <<"Failed to find checkpoint">>)
                       /\ pc' = "error"
                       /\ effects' = Append(effects, mkdir)
                       /\ UNCHANGED <<idx, fs>>
    /\ UNCHANGED <<nonSyncVars, tool, args, runs, response, printed,
                   keep_runs, all_wandb_run_folders, all_wandb_dirs, commands>>

\* a run-<ts>-<id> folder of a wandb directory; dangling says whether its
\* files directory holds a symlink whose target is gone
RunFolder(ts, id, dangling) == [ts |-> ts, id |-> id, dangling |-> dangling]

\* the name of a run folder, "run-<ts>-<id>"
FolderName(f) == <<f.ts, f.id>>

\* run_folder.name.split("-")[-1]
FolderRunId(name) == name[2]

\* the run directories on disk: directory i is named RunNamePool[i]; it has
\* no wandb folder, or a wandb folder with the run folders of one run id
\* (that of the first run, or of run i), listed by iterdir() newest first
DirLayouts(i) ==
    { [name |-> RunNamePool[i], has_wandb |-> FALSE, folders |-> <<>>] }
    \cup
    { [name |-> RunNamePool[i], has_wandb |-> TRUE,
       folders |-> [k \in 1..n |-> RunFolder(n - k + 1, id, dangling /\ k = 1)]] :
        n \in 1..MaxFolders, id \in {RunIdPool[1], RunIdPool[i]}, dangling \in BOOLEAN }

RECURSIVE FileSystemsOf(_)
FileSystemsOf(n) ==
    IF n = 0 THEN { <<>> }
    ELSE { Append(q, d) : q \in FileSystemsOf(n - 1), d \in DirLayouts(n) }

FileSystems == UNION { FileSystemsOf(n) : n \in 0..MaxDirs }

IdRank(id) == CHOOSE i \in 1..Len(RunIdPool) : RunIdPool[i] = id

\* order of the strings "run-<ts>-<id>"
NameLess(a, b) == a[1] < b[1] \/ (a[1] = b[1] /\ IdRank(a[2]) < IdRank(b[2]))

\* variant: the sort is descending, the newest folder comes first
InsertByNameDescending(sorted, x) ==
    LET before == SelectSeq(sorted, LAMBDA y : ~NameLess(y.name, x.name))
        after  == SelectSeq(sorted, LAMBDA y : NameLess(y.name, x.name))
    IN  before \o <<x>> \o after

InsertByName(sorted, x) ==
    LET before == SelectSeq(sorted, LAMBDA y : ~NameLess(x.name, y.name))
        after  == SelectSeq(sorted, LAMBDA y : NameLess(x.name, y.name))
    IN  before \o <<x>> \o after

\* sorted(wandb_run_folders, key=lambda f: f.name)
RECURSIVE SortByName(_)
SortByName(fl) ==
    IF Len(fl) = 0 THEN <<>>
    ELSE InsertByName(SortByName(SubSeq(fl, 1, Len(fl) - 1)), fl[Len(fl)])

RunIds(rs) == { rs[i].id : i \in 1..Len(rs) }

\* the run folders of directory d whose run id is one of run_ids, as paths
WandbRunFolders(files, d, run_ids) ==
    LET fl == files[d].folders
        paths == [k \in 1..Len(fl) |-> [dir |-> d, name |-> FolderName(fl[k])]]
    IN  SelectSeq(paths, LAMBDA p : FolderRunId(p.name) \in run_ids)

\* whether directory d contributes to all_wandb_run_folders
DirKept(files, d, run_ids, a) ==
    /\ files[d].has_wandb
    /\ Len(WandbRunFolders(files, d, run_ids)) > 0
    /\ ~(a.force_run_name_match /\ a.run_names # NoName
         /\ files[d].name \notin Range(a.run_names))

\* all_wandb_dirs after the first loop over all_run_dirs
RECURSIVE AllWandbDirs(_, _, _, _)
AllWandbDirs(files, n, run_ids, a) ==
    IF n = 0 THEN <<>>
    ELSE LET before == AllWandbDirs(files, n - 1, run_ids, a)
         IN  IF DirKept(files, n, run_ids, a) THEN Append(before, n) ELSE before

\* all_wandb_run_folders after the first loop over all_run_dirs
AllWandbRunFolders(files, run_ids, a) ==
    LET dirs == AllWandbDirs(files, Len(files), run_ids, a)
    IN  [p \in 1..Len(dirs) |-> SortByName(WandbRunFolders(files, dirs[p], run_ids))]

\* some run folder name occurs under two of the kept directories
DuplicateRunFolders(all_folders) ==
    \E p, q \in 1..Len(all_folders) :
      /\ p # q
      /\ \E i \in 1..Len(all_folders[p]), j \in 1..Len(all_folders[q]) :
           all_folders[p][i].name = all_folders[q][j].name

\* where the run loop goes once the commands are built: with no command and
\* no --dry-run nothing is left to do
EnterCommands(cmds, a) == IF ~a.dry_run /\ Len(cmds) = 0 THEN "done" ELSE "commands"

\* upload_runs up to the duplicate check: list the run directories and
\* keep the run folders of known runs
UploadCollect ==
    /\ tool = "sync" /\ pc = "collect"
    /\ \E files \in FileSystems :
         LET run_ids == RunIds(keep_runs)
             dirs == AllWandbDirs(files, Len(files), run_ids, args)
             all_folders == AllWandbRunFolders(files, run_ids, args)
         IN  /\ fs' = files
             /\ IF DuplicateRunFolders(all_folders)
                THEN /\ err' = Raise("RuntimeError", 446, <<"Found duplicate run folder names">>)
                     /\ pc' = "error"
                     /\ UNCHANGED <<all_wandb_dirs, all_wandb_run_folders>>
                ELSE /\ all_wandb_dirs' = dirs
                     /\ all_wandb_run_folders' = all_folders
                     /\ pc' = "clean_symlinks"
                     /\ err' = err
    /\ UNCHANGED <<nonSyncVars, tool, args, runs, response, effects, printed,
                   keep_runs, commands, idx>>

IsDangling(files, p) ==
    \E k \in 1..Len(files[p.dir].folders) :
      /\ FolderName(files[p.dir].folders[k]) = p.name
      /\ files[p.dir].folders[k].dangling

\* missing_symlinks: one dangling symlink for every kept run folder that has
\* one, in the order of all_wandb_run_folders
MissingSymlinks(files, all_folders) ==
    SelectSeq(Flatten(all_folders), LAMBDA p : IsDangling(files, p))

\* the disk after f.unlink() for every missing symlink
Unlinked(files, missing) ==
    [d \in 1..Len(files) |->
       [files[d] EXCEPT !.folders =
          [k \in 1..Len(files[d].folders) |->
             [files[d].folders[k] EXCEPT !.dangling =
                @ /\ [dir |-> d, name |-> FolderName(files[d].folders[k])]
                       \notin Range(missing)]]]]

\* variant: the symlinks are removed before --remove-missing-symlinks is
\* looked at
UnlinkCallsBeforeCheck(missing, a) ==
    [i \in 1..Len(missing) |-> Call("unlink", missing[i], [dry_run |-> a.dry_run])]

\* the f.unlink() calls of the clean-up: none when the error is raised
UnlinkCalls(missing, a) ==
    IF Len(missing) > 0 /\ ~a.remove_missing_symlinks THEN <<>>
    ELSE [i \in 1..Len(missing) |-> Call("unlink", missing[i], [dry_run |-> a.dry_run])]

\* "Clean up any old symlinks"
UploadCleanSymlinks ==
    /\ tool = "sync" /\ pc = "clean_symlinks"
    /\ LET missing_symlinks == MissingSymlinks(fs, all_wandb_run_folders)
       IN  IF Len(missing_symlinks) > 0 /\ ~args.remove_missing_symlinks
           THEN /\ err' = Raise("RuntimeError", 467, <<"missing symlinks">>)
                /\ pc' = "error"
                /\ effects' = effects \o UnlinkCalls(missing_symlinks, args)
                /\ UNCHANGED <<fs, idx>>
           ELSE /\ effects' = effects \o UnlinkCalls(missing_symlinks, args)
                /\ fs' = Unlinked(fs, missing_symlinks)
                /\ idx' = 1
                /\ pc' = IF Len(all_wandb_dirs) > 0 THEN "stage"
                         ELSE EnterCommands(<<>>, args)
                /\ err' = err
    /\ UNCHANGED <<nonSyncVars, tool, args, runs, response, printed,
                   keep_runs, all_wandb_run_folders, all_wandb_dirs, commands>>

\* the wandb sync command for one run folder
Command(a, checkpoints_only, run_folder) ==
    [project |-> a.wandb_project, entity |-> a.wandb_entity,
     include_globs |-> IF checkpoints_only THEN <<a.checkpoint_name>> ELSE <<>>,
     run_folder |-> run_folder]

CommandsFor(a, folders) ==
    [k \in 1..Len(folders) |-> Command(a, a.upload_checkpoints, folders[k])]

\* what latest-run of directory d may resolve to: its newest run folder
\* (the one iterdir() lists first), or something that carries no known run
\* id, such as the path "latest-run" itself when the link is missing
LatestRunChoices(files, d) ==
    { FolderName(files[d].folders[1]), <<0, "run">> }

\* " ".join(command) raises TypeError when an element is None
JoinFails(command) == command.include_globs = <<None>>

\* one iteration of the loop that stages the checkpoint and builds commands
UploadStageDir ==
    /\ tool = "sync" /\ pc = "stage" /\ idx <= Len(all_wandb_dirs)
    /\ LET d == all_wandb_dirs[idx]
           more == commands \o CommandsFor(args, all_wandb_run_folders[idx])
           last == idx = Len(all_wandb_dirs)
           goon(cmds) == /\ commands' = cmds
                         /\ idx' = IF last THEN 1 ELSE idx + 1
                         /\ pc' = IF last THEN EnterCommands(cmds, args) ELSE "stage"
                         /\ err' = err
       IN  IF args.checkpoint_name = None
           THEN goon(more) /\ effects' = effects
           ELSE \E latest \in LatestRunChoices(fs, d),
                   has_checkpoint, has_files_dir, symlink_exists \in BOOLEAN :
                  IF FolderRunId(latest) \notin RunIds(keep_runs)
                  THEN /\ err' = Raise("RuntimeError", 484, <<"Latest run has run id">>)
                       /\ pc' = "error"
                       /\ UNCHANGED <<commands, idx, effects>>
                  ELSE IF ~has_checkpoint \/ ~has_files_dir
                  THEN goon(commands) /\ effects' = effects
                  ELSE /\ goon(more)
                       /\ effects' =
                            IF args.dry_run \/ symlink_exists THEN effects
                            ELSE Append(effects,
                                   Call("symlink", [dir |-> d, name |-> latest],
                                        [src |-> args.checkpoint_name]))
    /\ UNCHANGED <<nonSyncVars, tool, args, runs, response, printed,
                   keep_runs, fs, all_wandb_run_folders, all_wandb_dirs>>

\* --dry-run: the commands are joined and printed
UploadDryRun ==
    /\ tool = "sync" /\ pc = "commands" /\ args.dry_run
    /\ IF \E k \in 1..Len(commands) : JoinFails(commands[k])
       THEN /\ err' = Raise("TypeError", 539, <<"expected str instance, NoneType found">>)
            /\ pc' = "error"
            /\ printed' = printed
       ELSE /\ printed' = Append(printed, [what |-> "commands", objs |-> commands])
            /\ pc' = "done"
            /\ err' = err
    /\ UNCHANGED <<nonSyncVars, tool, args, runs, response, effects, syncVars>>

\* one iteration of the loop that runs the commands; subprocess.run with
\* check=True raises when the command exits with a non-zero status
UploadRunCommand ==
    /\ tool = "sync" /\ pc = "commands" /\ ~args.dry_run /\ idx <= Len(commands)
    /\ IF JoinFails(commands[idx])
       THEN /\ err' = Raise("TypeError", 547, <<"expected str instance, NoneType found">>)
            /\ pc' = "error"
            /\ UNCHANGED <<effects, idx>>
       ELSE /\ effects' = Append(effects, Call("subprocess.run", commands[idx], [check |-> TRUE]))
            /\ \E exit_ok \in BOOLEAN :
                 IF exit_ok
                 THEN /\ idx' = idx + 1
                      /\ pc' = IF idx = Len(commands) THEN "done" ELSE "commands"
                      /\ err' = err
                 ELSE /\ err' = Raise("CalledProcessError", 554, <<"non-zero exit status">>)
                      /\ pc' = "error"
                      /\ idx' = idx
    /\ UNCHANGED <<nonSyncVars, tool, args, runs, response, printed,
                   keep_runs, fs, all_wandb_run_folders, all_wandb_dirs, commands>>

NextSync ==
    \/ SyncParseArgs
    \/ SyncGetMatchingRuns
    \/ DownloadRun
    \/ UploadCollect
    \/ UploadCleanSymlinks
    \/ UploadStageDir
    \/ UploadDryRun
    \/ UploadRunCommand

(***************************************************************************)
(* The same non-dry-run upload made twice over one run directory: the      *)
(* part of upload_runs that reads and writes the disk (the scan for        *)
(* missing symlinks and the staging of the checkpoint).                    *)
(***************************************************************************)
\* the disk as one upload sees it.
\*   wandb_dir  : the form of the path of <run_dir>/wandb, which is that of
\*                --results-dir / --run-dirs (no path is made absolute)
\*   checkpoint : the entry named --checkpoint-name in wandb_dir: none, a
\*                file, or a symlink whose target is gone (iterdir lists it)
\*   latest     : latest-run resolves to one of the scanned run-* folders,
\*                to a folder that carries a known run id but is not scanned
\*                (such as offline-run-<ts>-<id>), or to an unknown run id
\*   files_dir  : that folder has a files directory
\*   link       : the entry files/<checkpoint-name>: none, the symlink
\*                os.symlink(str(checkpoint), ...) writes, some other file,
\*                or some other symlink whose target is gone
StageDisks ==
    [wandb_dir : {"relative", "absolute"},
     checkpoint : {"absent", "file", "broken"},
     latest : {"scanned", "unscanned", "unknown"},
     files_dir : BOOLEAN,
     link : {"absent", "to_checkpoint", "file", "broken"}]

\* symlink.exists(): follows the link. The link written by os.symlink holds
\* str(checkpoint); a relative target is resolved against the directory of
\* the link, <run folder>/files, where no such path exists
LinkExists(d) ==
    \/ d.link = "file"
    \/ d.link = "to_checkpoint" /\ d.wandb_dir = "absolute" /\ d.checkpoint = "file"

\* f.is_symlink() and not f.resolve().exists()
LinkMissing(d) ==
    \/ d.link = "broken"
    \/ d.link = "to_checkpoint" /\ ~LinkExists(d)

StageResult(d, e, calls) == [disk |-> d, err |-> e, calls |-> calls]

\* the staging of the checkpoint for one directory (lines 480-518)
StageCheckpoint(d, calls) ==
    IF d.latest = "unknown"
    THEN StageResult(d, Raise("RuntimeError", 484, <<"Latest run has run id">>), calls)
    ELSE IF d.checkpoint = "absent" \/ ~d.files_dir \/ LinkExists(d)
    THEN StageResult(d, NoErr, calls)
    ELSE IF d.link = "absent"
    THEN StageResult([d EXCEPT !.link = "to_checkpoint"], NoErr,
                     Append(calls, Call("symlink", "files/checkpoint", [src |-> d.wandb_dir])))
    ELSE StageResult(d, Raise("FileExistsError", 518, <<"File exists">>), calls)

\* upload_runs with --checkpoint-name on one directory, up to the commands:
\* the scan of the kept run folders (lines 456-473), then the staging
UploadOnce(d, a) ==
    IF d.latest # "scanned"
    THEN StageCheckpoint(d, <<>>)
    ELSE IF ~d.files_dir
    THEN StageResult(d, Raise("FileNotFoundError", 461, <<"files">>), <<>>)
    ELSE IF ~LinkMissing(d)
    THEN StageCheckpoint(d, <<>>)
    ELSE IF ~a.remove_missing_symlinks
    THEN StageResult(d, Raise("RuntimeError", 467, <<"missing symlinks">>), <<>>)
    ELSE StageCheckpoint([d EXCEPT !.link = "absent"],
                         << Call("unlink", "files/checkpoint", [dry_run |-> FALSE]) >>)

\* one more invocation of the upload on the disk the previous one left; idx
\* counts the invocations made
UploadAgain ==
    /\ tool = "upload_twice" /\ idx < 2
    /\ LET res == UploadOnce(fs, args)
       IN  /\ fs' = res.disk
           /\ err' = res.err
           /\ effects' = effects \o res.calls
           /\ idx' = idx + 1
    /\ UNCHANGED <<nonSyncVars, tool, pc, args, runs, response, printed,
                   keep_runs, all_wandb_run_folders, all_wandb_dirs, commands>>

NextUploadTwice == UploadAgain

(***************************************************************************)
(* filter_runs on its own: any project, any combination of the filters     *)
(***************************************************************************)
\* projects of runs with distinct ids, any of three names, owners u1 / u2
FilterProjects ==
    { [i \in 1..Len(q) |-> [MkUpdateRun(i, <<>>, <<>>) EXCEPT !.name = q[i]]] :
        q \in RunCollections({ <<"a">>, <<"a","b">>, <<"b">> }) }

FilterArgs ==
    [ prog : {"wandb_update"},
      username : {None, "u1", "u2"},
      skip_run_ids : { <<>>, <<"r1">>, <<"r3">> },
      select_run_ids : { <<>>, <<"r1">>, <<"r2", "r1">> },
      skip_run_names_regex : { <<>>, << <<"b">> >> },
      select_run_names_regex : { <<>>, << <<"^","a">> >>, << <<"b","$">>, <<"a",".">> >> } ]

\* current_runs = filter_runs(args), the project being what api.runs answers
FilterRunsCall ==
    /\ tool = "filter_runs" /\ pc = "call"
    /\ returned' = FilterRuns(runs, args)
    /\ pc' = "returned"
    /\ UNCHANGED <<tool, args, runs, err, response, effects, printed,
                   forkVars, updateVars, delete_objs, syncVars>>

NextFilter == FilterRunsCall

(***************************************************************************)
(* get_matching_runs on its own: any project, any list of keywords         *)
(***************************************************************************)
MatchingProjects == { MkRuns(q) : q \in RunCollections({ <<"a">>, <<"a","b">>, <<"b">> }) }

KeywordLists == { q \in SeqsUpTo(Keywords, MaxKeywords) : Len(q) > 0 }

GetMatchingRunsCall ==
    /\ tool = "get_matching_runs" /\ pc = "call"
    /\ IF GetMatchingRunsError(runs, args)
       THEN /\ err' = Raise("ValueError", 265, <<"matched the same run">>)
            /\ pc' = "error"
            /\ keep_runs' = keep_runs
       ELSE /\ keep_runs' = GetMatchingRuns(runs, args)
            /\ pc' = "returned"
            /\ err' = err
    /\ UNCHANGED <<nonSyncVars, tool, args, runs, response, effects, printed,
                   fs, all_wandb_run_folders, all_wandb_dirs, commands, idx>>

NextMatching == GetMatchingRunsCall

(***************************************************************************)
(* Specifications                                                          *)
(***************************************************************************)
\* the locals of wandb_sync.py before it runs
SyncIdle ==
    /\ keep_runs = <<>> /\ fs = <<>>
    /\ all_wandb_run_folders = <<>> /\ all_wandb_dirs = <<>>
    /\ commands = <<>> /\ idx = 0

Tools == {"fork", "update", "sync"}

Init ==
    /\ tool \in Tools
    /\ pc = "parse_args"
    /\ args = NoArgs
    /\ runs = <<>>
    /\ err = NoErr
    /\ response = <<>>
    /\ effects = <<>>
    /\ printed = <<>>
    /\ run = NoRun
    /\ history = <<>>
    /\ steps = <<>>
    /\ step = 0
    /\ step_reduction = FALSE
    /\ all_delete_files = <<>>
    /\ all_delete_artifacts = <<>>
    /\ delete_objs = <<>>
    /\ returned = <<>>
    /\ SyncIdle

Next == NextFork \/ NextUpdate \/ NextSync

Spec == Init /\ [][Next]_vars

InitFork == Init /\ tool = "fork"

SpecFork == InitFork /\ [][NextFork]_vars

InitUpdate == Init /\ tool = "update"

SpecUpdate == InitUpdate /\ [][NextUpdate]_vars

InitKeepLatest ==
    /\ tool = "remove_latest"
    /\ pc = "call"
    /\ delete_objs \in KeepLatestInputs
    /\ args = NoArgs /\ runs = <<>> /\ err = NoErr /\ response = <<>>
    /\ effects = <<>> /\ printed = <<>>
    /\ run = NoRun /\ history = <<>> /\ steps = <<>> /\ step = 0
    /\ step_reduction = FALSE
    /\ all_delete_files = <<>> /\ all_delete_artifacts = <<>>
    /\ returned = <<>>
    /\ SyncIdle

SpecKeepLatest == InitKeepLatest /\ [][NextKeepLatest]_vars

InitSync == Init /\ tool = "sync"

SpecSync == InitSync /\ [][NextSync]_vars

InitMatching ==
    /\ tool = "get_matching_runs"
    /\ pc = "call"
    /\ runs \in MatchingProjects
    /\ args \in [prog : {"wandb_sync"}, run_names : KeywordLists]
    /\ err = NoErr /\ response = <<>>
    /\ effects = <<>> /\ printed = <<>>
    /\ run = NoRun /\ history = <<>> /\ steps = <<>> /\ step = 0
    /\ step_reduction = FALSE
    /\ all_delete_files = <<>> /\ all_delete_artifacts = <<>>
    /\ delete_objs = <<>> /\ returned = <<>>
    /\ SyncIdle

SpecMatching == InitMatching /\ [][NextMatching]_vars

InitFilter ==
    /\ tool = "filter_runs"
    /\ pc = "call"
    /\ runs \in FilterProjects
    /\ args \in FilterArgs
    /\ err = NoErr /\ response = <<>>
    /\ effects = <<>> /\ printed = <<>>
    /\ run = NoRun /\ history = <<>> /\ steps = <<>> /\ step = 0
    /\ step_reduction = FALSE
    /\ all_delete_files = <<>> /\ all_delete_artifacts = <<>>
    /\ delete_objs = <<>> /\ returned = <<>>
    /\ SyncIdle

SpecFilter == InitFilter /\ [][NextFilter]_vars

InitUploadTwice ==
    /\ tool = "upload_twice"
    /\ pc = "call"
    /\ fs \in StageDisks
    /\ args \in [prog : {"wandb_sync"}, remove_missing_symlinks : BOOLEAN]
    /\ runs = <<>> /\ err = NoErr /\ response = <<>>
    /\ effects = <<>> /\ printed = <<>>
    /\ run = NoRun /\ history = <<>> /\ steps = <<>> /\ step = 0
    /\ step_reduction = FALSE
    /\ all_delete_files = <<>> /\ all_delete_artifacts = <<>>
    /\ delete_objs = <<>> /\ returned = <<>>
    /\ keep_runs = <<>>
    /\ all_wandb_run_folders = <<>> /\ all_wandb_dirs = <<>>
    /\ commands = <<>> /\ idx = 0

SpecUploadTwice == InitUploadTwice /\ [][NextUploadTwice]_vars

(***************************************************************************)
(* Properties of wandb_fork.py                                             *)
(***************************************************************************)
\* the fork tool has resolved (or failed to resolve) the run
RunResolutionDone ==
    /\ tool = "fork"
    /\ pc \notin {"parse_args", "api_runs", "resolve_run"}
    /\ ForkParseError(args) = NoErr

\* the positions of the collection's runs that have the selected id or name
SelectorHits ==
    { i \in 1..Len(runs) :
        IF args.run_id # None THEN runs[i].id = args.run_id
        ELSE runs[i].name = args.run_name }

ForkInits ==
    { k \in 1..Len(effects) :
        effects[k].op = "init" /\ "fork_from" \in DOMAIN effects[k].kwargs }

\* C1: when exactly one run of the collection has the selected id or name,
\* that run is the resolved one and every fork names it; with zero or several
\* matches the tool ends in an error that reports the match count and no
\* init call is made.
C1_UniqueRunForkedElseError ==
    RunResolutionDone =>
        IF Cardinality(SelectorHits) = 1
        THEN /\ \A i \in SelectorHits : run = runs[i]
             /\ \A k \in ForkInits : effects[k].kwargs.fork_from[1] = run.id
             /\ err.line \notin {174, 187}
        ELSE /\ pc = "error"
             /\ err.type = "RuntimeError"
             /\ err.line = (IF args.run_id # None THEN 174 ELSE 187)
             /\ err.msg[2] = Cardinality(SelectorHits)
             /\ effects = <<>>

C1_Witness ==
    /\ RunResolutionDone /\ args.run_name = <<"a">>
    /\ Len(runs) = 2 /\ runs[1].name = <<"a","b">>
    /\ ForkInits # {}

\* the step resolution has been made (or has failed)
StepResolutionDone ==
    /\ RunResolutionDone
    /\ run # NoRun
    /\ pc # "resolve_step"

\* the step resolution itself raised
StepResolutionFailed ==
    pc = "error" /\ err.type = "RuntimeError" /\ err.line \in {218, 229}

\* C3: with metric name "step" the step is the target value itself, for any
\* integer and any reduction policy, the history is never scanned and the
\* resolution does not fail.
C3_StepMetricIsIdentity ==
    (StepResolutionDone /\ args.forked_metric_name = "step") =>
        /\ step = args.forked_value
        /\ history = <<>> /\ steps = <<>>
        /\ ~StepResolutionFailed
        /\ \A k \in ForkInits : effects[k].kwargs.fork_from[3] = args.forked_value

C3_Witness ==
    /\ StepResolutionDone /\ pc = "done"
    /\ args.forked_metric_name = "step" /\ args.forked_value = -3
    /\ args.matching_steps_reduction_func = "min"
    /\ ForkInits # {}

\* the positions of the scanned rows that hold the metric with the value
RowHits ==
    { i \in 1..Len(history[1]) :
        /\ args.forked_metric_name \in DOMAIN history[1][i]
        /\ history[1][i][args.forked_metric_name] = args.forked_value }

HistoryScanned ==
    StepResolutionDone /\ args.forked_metric_name # "step" /\ history # <<>>

\* C4: when exactly one scanned row holds the metric with the target value,
\* the resolved step is that row's step under every reduction policy.
C4_SingleMatchIsThatStep ==
    (HistoryScanned /\ Cardinality(RowHits) = 1) =>
        /\ \A i \in RowHits : step = history[1][i]._step
        /\ steps = [j \in 1..1 |-> step]
        /\ ~StepResolutionFailed
        /\ \A k \in ForkInits : effects[k].kwargs.fork_from[3] = step

C4_Witness ==
    /\ HistoryScanned /\ pc = "done"
    /\ Len(history[1]) = 2
    /\ RowHits = {2}
    /\ "epoch" \in DOMAIN history[1][1]
    /\ args.matching_steps_reduction_func = "min"
    /\ ForkInits # {}

HitSteps == { history[1][i]._step : i \in RowHits }

\* C5: when two or more scanned rows match, policy max resolves to the
\* greatest matching step, policy min to the least, and without a policy the
\* tool ends in an error with no init call made.
C5_SeveralMatchesReduced ==
    (HistoryScanned /\ Cardinality(RowHits) >= 2) =>
        CASE args.matching_steps_reduction_func = "max" ->
                 /\ step \in HitSteps /\ \A x \in HitSteps : x <= step
                 /\ ~StepResolutionFailed
          [] args.matching_steps_reduction_func = "min" ->
                 /\ step \in HitSteps /\ \A x \in HitSteps : step <= x
                 /\ ~StepResolutionFailed
          [] OTHER ->
                 /\ StepResolutionFailed
                 /\ err.line = 218
                 /\ effects = <<>>

C5_Witness ==
    /\ HistoryScanned /\ pc = "done"
    /\ Cardinality(RowHits) = 2
    /\ args.matching_steps_reduction_func = "max"
    /\ \E k \in ForkInits : effects[k].kwargs.fork_from[3] = 20

\* C6: when no scanned row holds the metric with exactly the target value,
\* the tool ends in an error under every reduction policy: no step is
\* resolved and no init call is made.
C6_NoMatchIsError ==
    (HistoryScanned /\ RowHits = {}) =>
        /\ StepResolutionFailed
        /\ err.line = 229
        /\ steps = <<>> /\ step = 0
        /\ effects = <<>>

C6_Witness ==
    /\ HistoryScanned /\ RowHits = {}
    /\ Len(history[1]) = 2
    /\ "epoch" \in DOMAIN history[1][1] /\ "epoch" \notin DOMAIN history[1][2]
    /\ args.matching_steps_reduction_func = "max"
    /\ pc = "error"

(***************************************************************************)
(* Properties of remove_latest_file_or_artifact                            *)
(***************************************************************************)
StampOf(f) == Strptime(UpdatedAttr(f))

DistinctStamps(objs) ==
    \A i, j \in 1..Len(objs) : i # j => StampOf(objs[i]) # StampOf(objs[j])

Reorderings(n) ==
    { p \in [1..n -> 1..n] : \A i, j \in 1..n : i # j => p[i] # p[j] }

\* C10: on a non-empty listing with pairwise distinct update timestamps,
\* keep-latest removal drops exactly the object with the greatest timestamp
\* and returns the other n-1 objects in their input order; every reordering
\* of the input returns the same set of objects, and a one-element input
\* returns the empty list.
C10_KeepLatestDropsNewest ==
    (tool = "remove_latest" /\ pc # "call" /\ DistinctStamps(delete_objs)) =>
        LET n == Len(delete_objs)
            newest == CHOOSE f \in Range(delete_objs) :
                          \A g \in Range(delete_objs) : StampOf(g) <= StampOf(f)
        IN  /\ pc = "returned"
            /\ Len(returned) = n - 1
            /\ Range(returned) = Range(delete_objs) \ {newest}
            /\ returned = SelectSeq(delete_objs, LAMBDA f : f # newest)
            /\ n = 1 => returned = <<>>
            /\ \A p \in Reorderings(n) :
                   Range(RemoveLatest([i \in 1..n |-> delete_objs[p[i]]]))
                       = Range(returned)

C10_Witness ==
    /\ tool = "remove_latest" /\ pc = "returned"
    /\ Len(delete_objs) = 3 /\ DistinctStamps(delete_objs)
    /\ StampOf(delete_objs[2]) > StampOf(delete_objs[1])
    /\ StampOf(delete_objs[2]) > StampOf(delete_objs[3])
    /\ returned = <<delete_objs[1], delete_objs[3]>>

(***************************************************************************)
(* get_matching_runs                                                       *)
(***************************************************************************)
\* the positions of the runs whose name the k-th keyword matches
KeywordHits(k) ==
    { i \in 1..Len(runs) : ReSearch(args.run_names[k], runs[i].name) }

\* every keyword matches exactly one run and no two keywords the same run
OneRunPerKeyword ==
    /\ \A k \in 1..Len(args.run_names) : Cardinality(KeywordHits(k)) = 1
    /\ \A k, l \in 1..Len(args.run_names) : k # l => KeywordHits(k) # KeywordHits(l)

\* C2: with a non-empty keyword list get_matching_runs returns exactly when
\* every keyword matches exactly one run (by regex search on the run name)
\* and no two keywords match the same run; what it returns is that one run
\* per keyword, in keyword order, so never fewer runs than keywords; in
\* every other case it raises the ValueError of line 265
C2_OneRunPerKeywordElseError ==
    (tool = "get_matching_runs" /\ pc # "call") =>
        /\ pc \in {"returned", "error"}
        /\ pc = "returned" <=> OneRunPerKeyword
        /\ pc = "returned" =>
             /\ Len(keep_runs) = Len(args.run_names)
             /\ \A k \in 1..Len(args.run_names) :
                  \E i \in KeywordHits(k) : keep_runs[k] = runs[i]
        /\ pc = "error" =>
             /\ err.type = "ValueError" /\ err.line = 265
             /\ keep_runs = <<>>

\* two keywords resolved to two different runs of a project
C2_Witness ==
    /\ tool = "get_matching_runs" /\ pc = "returned"
    /\ Len(args.run_names) = 2 /\ Len(keep_runs) = 2
    /\ keep_runs[1].id # keep_runs[2].id

(***************************************************************************)
(* The confirmation prompts                                                *)
(***************************************************************************)
UpperChar(c) ==
    CASE c = "y" -> "Y"
      [] c = "e" -> "E"
      [] c = "s" -> "S"
      [] OTHER   -> c

\* r is word, in any letter case
AnyCase(word, r) ==
    /\ Len(r) = Len(word)
    /\ \A i \in 1..Len(word) : r[i] \in {word[i], UpperChar(word[i])}

SaysYes(r) == AnyCase(<<"y">>, r) \/ AnyCase(<<"y","e","s">>, r)

\* the program waits at one of its three prompts
AtPrompt == pc \in {"confirm_fork", "confirm_resume", "confirm_delete"}

\* the operation the prompt guards is about to run
Proceeds == pc \in {"init_fork", "init_resume", "delete_calls"}

\* the invocation is over with exit status 0
EndedOk == pc \in {"exit", "done"} /\ err = NoErr

\* what each prompt takes as affirmative
AcceptedAt(prompt, r) ==
    IF prompt = "confirm_delete" THEN AnyCase(<<"y">>, r) ELSE SaysYes(r)

\* C7 as stated: at each of the three prompts "y" and "yes" in any letter
\* case let the operation proceed and every other response is a refusal
C7_YesAcceptedAtEveryPrompt ==
    [][AtPrompt => /\ Proceeds' <=> SaysYes(response')
                   /\ Proceeds' \/ EndedOk']_vars

\* C7 amended: the fork tool's two prompts take "y" and "yes" in any letter
\* case as affirmative, the delete tool's prompt takes only "y" in either
\* case ("yes" is refused there); an affirmative response lets the operation
\* proceed and every other response is a refusal
C7_DeletePromptTakesOnlyY ==
    [][AtPrompt => /\ Proceeds' <=> AcceptedAt(pc, response')
                   /\ Proceeds' \/ EndedOk']_vars

\* "yes" was typed at the delete prompt and nothing was deleted
C7_Witness ==
    /\ tool = "update" /\ pc = "done"
    /\ Len(all_delete_files) + Len(all_delete_artifacts) > 0
    /\ ~args.dry_run
    /\ AnyCase(<<"y","e","s">>, response)
    /\ effects = <<>>

\* C8 as stated: a non-affirmative response at any prompt ends the
\* invocation with exit status 0 and no side effect was made at any point
\* of the invocation
C8_DeclineLeavesNoSideEffects ==
    [][(AtPrompt /\ ~SaysYes(response')) => (EndedOk' /\ effects' = <<>>)]_vars

\* C8 amended: a response the prompt does not accept ends the invocation
\* with exit status 0 and makes no side effect from then on; after a refusal
\* at the fork tool's first prompt or at the delete tool's prompt nothing
\* was created, deleted or changed at all, and after a refusal at the fork
\* tool's second prompt (the one before the re-init with the resume flag)
\* the forked run was already created and finished, and nothing else
C8_DeclineStopsWithoutFurtherEffects ==
    [][(AtPrompt /\ ~AcceptedAt(pc, response')) =>
         /\ EndedOk'
         /\ effects' = effects
         /\ pc \in {"confirm_fork", "confirm_delete"} => effects' = <<>>
         /\ pc = "confirm_resume" =>
              /\ Len(effects') = 2
              /\ effects'[1].op = "init"
              /\ "fork_from" \in DOMAIN effects'[1].kwargs
              /\ effects'[2].op = "finish"]_vars

\* the second prompt of the fork tool was declined: the fork is made
C8_Witness ==
    /\ tool = "fork" /\ pc = "exit"
    /\ ~SaysYes(response)
    /\ Len(effects) = 2

\* the calls a step adds to effects
NewCalls == { effects'[k] : k \in (Len(effects) + 1)..Len(effects') }

\* the objects of the list printed last
LastPrinted == IF printed = <<>> THEN {} ELSE Range(printed[Len(printed)].objs)

\* C9 as stated: in every tool a deleting or mutating call happens only
\* after the objects were printed and an affirmative response was received
C9_EveryMutationConfirmed ==
    [][effects' # effects => (printed # <<>> /\ SaysYes(response))]_vars

\* C9 amended: in the fork tool and the delete tool every init and delete
\* call happens only after the kwargs or objects of that very call were
\* printed and the user gave a response that prompt accepts, and every
\* finish call only after such a response; the sync tool asks for no
\* confirmation at all: its symlink removals, symlink creations and sync
\* subprocess calls (and its local mkdir and download calls) happen with
\* nothing printed and no response read
C9_ForkAndDeleteMutationsConfirmed ==
    [][effects' # effects =>
         IF tool = "sync"
         THEN /\ printed = <<>> /\ response = <<>>
              /\ \A c \in NewCalls :
                   c.op \in {"unlink", "symlink", "subprocess.run", "mkdir", "download"}
         ELSE /\ IF tool = "update" THEN AnyCase(<<"y">>, response)
                 ELSE SaysYes(response)
              /\ \A c \in NewCalls :
                   CASE c.op = "init"   -> c.kwargs \in LastPrinted
                     [] c.op = "delete" -> <<c.target.run, c.target.name>> \in LastPrinted
                     [] OTHER           -> c.op = "finish"]_vars

\* files and artifacts were deleted after the list was confirmed
C9_Witness ==
    /\ tool = "update" /\ pc = "done"
    /\ Len(effects) >= 2
    /\ effects[Len(effects)].kwargs.delete_aliases
    /\ AnyCase(<<"y">>, response)

\* the greatest update timestamp of a listing
GreatestStamp(objs) == Max([i \in 1..Len(objs) |-> StampOf(objs[i])])

\* the positions that carry the greatest update timestamp
TiedLatest(objs) == { i \in 1..Len(objs) : StampOf(objs[i]) = GreatestStamp(objs) }

\* C11: when two or more candidates share the greatest update timestamp,
\* keep-latest removal drops the first of the tied objects in input order and
\* no other object, and the assertion that n-1 objects are left holds
C11_TieDropsFirstEncountered ==
    (tool = "remove_latest" /\ pc # "call" /\ Cardinality(TiedLatest(delete_objs)) >= 2) =>
        LET n == Len(delete_objs)
            first == CHOOSE i \in TiedLatest(delete_objs) :
                         \A j \in TiedLatest(delete_objs) : i <= j
        IN  /\ pc = "returned" /\ err = NoErr
            /\ Len(returned) = n - 1
            /\ returned = SubSeq(delete_objs, 1, first - 1)
                            \o SubSeq(delete_objs, first + 1, n)

\* the second and third of three objects share the greatest timestamp
C11_Witness ==
    /\ tool = "remove_latest" /\ pc = "returned"
    /\ Len(delete_objs) = 3
    /\ TiedLatest(delete_objs) = {2, 3}
    /\ returned = <<delete_objs[1], delete_objs[3]>>

(***************************************************************************)
(* Properties of delete_objects                                            *)
(***************************************************************************)
\* the objects passed to a delete call so far
Deleted == { effects[k].target : k \in { j \in 1..Len(effects) : effects[j].op = "delete" } }

\* the matches of one regex among the objects of one run
RegexMatches(objects, regex) == SelectSeq(objects, LAMBDA f : ReSearch(regex, f.name))

\* the object with the last modified time among the matches of every delete
\* regex in every selected run
KeptLatest ==
    LET selected == FilterRuns(runs, args)
        kept(objects, regexes) ==
            { LastModFile(RegexMatches(objects, regexes[k])) :
                k \in { j \in 1..Len(regexes) : Len(RegexMatches(objects, regexes[j])) > 0 } }
    IN  UNION { kept(selected[i].files, args.delete_filename_regex)
                \cup kept(selected[i].artifacts, args.delete_artifact_regex) :
                  i \in 1..Len(selected) }

\* C12: with --delete-keep-latest, the object with the last modified time
\* among the matches of a delete regex in a selected run is never passed to
\* a delete call, whatever the combination of delete regexes
C12_KeptLatestNeverDeleted ==
    (tool = "update" /\ pc = "done" /\ args.delete_keep_latest) =>
        Deleted \cap KeptLatest = {}

(***************************************************************************)
(* Properties of upload_runs                                               *)
(***************************************************************************)
\* the calls of one kind made so far, in order
CallsOf(op) == SelectSeq(effects, LAMBDA c : c.op = op)

\* upload_runs runs with --dry-run
DryRunUpload == tool = "sync" /\ pc # "parse_args" /\ err.line \notin {224, 230, 233, 236}
                /\ UploadMode(args) /\ args.dry_run

\* C13: an upload with --dry-run removes no symlink, creates none and runs
\* no subprocess, whatever --checkpoint-name, --remove-missing-symlinks and
\* checkpoints_only are, and when it completes it has printed the commands
C13_DryRunUploadMutatesNothing ==
    DryRunUpload =>
        /\ effects = <<>>
        /\ pc = "done" => (printed # <<>> /\ printed[Len(printed)].what = "commands")

\* C14: a --dry-run invocation of the delete tool never calls delete and
\* never asks; when it found objects to delete it has printed every one of
\* them, for every project, regexes and keep-latest setting
C14_DryRunDeleteCallsNothing ==
    (tool = "update" /\ pc # "parse_args" /\ err = NoErr /\ args.dry_run) =>
        /\ effects = <<>>
        /\ pc \notin {"confirm_delete", "delete_calls"}
        /\ response = <<>>
        /\ (pc = "done" /\ Len(all_delete_files) + Len(all_delete_artifacts) > 0) =>
             /\ printed # <<>>
             /\ printed[Len(printed)].what = "delete"
             /\ Len(printed[Len(printed)].objs)
                  = Len(all_delete_files) + Len(all_delete_artifacts)
             /\ \A f \in Range(all_delete_files) \cup Range(all_delete_artifacts) :
                  <<f.run, f.name>> \in Range(printed[Len(printed)].objs)

\* a dry run that listed a file and an artifact and stopped
C14_Witness ==
    /\ tool = "update" /\ pc = "done" /\ err = NoErr
    /\ args.dry_run
    /\ Len(all_delete_files) > 0 /\ Len(all_delete_artifacts) > 0
    /\ effects = <<>>

(***************************************************************************)
(* Operation modes and selectors                                           *)
(***************************************************************************)
Parsed == pc # "parse_args"

\* the number of operation modes the command line selects
ModesSelected ==
    CASE tool = "sync"   -> Flag(args.download_checkpoints) + Flag(args.download_runs)
                            + Flag(args.upload_checkpoints) + Flag(args.upload_runs)
      [] tool = "update" -> Flag(Len(args.find_filename_regex) + Len(args.find_artifact_regex) > 0)
                            + Flag(Len(args.delete_filename_regex)
                                   + Len(args.delete_artifact_regex) > 0)
      [] OTHER           -> 1

\* the number of selectors given where exactly one is required
SelectorsGiven ==
    CASE tool = "sync" -> Flag(args.results_dir # None) + Flag(args.run_dirs # None)
      [] tool = "fork" -> Flag(args.run_id # None) + Flag(args.run_name # NoName)
      [] OTHER         -> 1

\* no remote call, no output and no mutation was made
NothingExecuted == runs = <<>> /\ effects = <<>> /\ printed = <<>> /\ fs = <<>>

\* C15 as stated: in every tool an invocation that selects more than one
\* operation mode or omits a required selector ends in an exception and
\* executes none of the selected operations
C15_ModesExclusiveInEveryTool ==
    (tool \in Tools /\ Parsed /\ (ModesSelected > 1 \/ SelectorsGiven = 0)) =>
        (pc = "error" /\ NothingExecuted)

\* C15 amended: the sync tool raises ValueError unless exactly one of its
\* four mode flags is given and unless exactly one of --results-dir and
\* --run-dirs is given, and the fork tool raises RuntimeError unless exactly
\* one of --run-id and --run-name is given, in each case before anything is
\* executed; the delete tool does not treat its find and delete options as
\* exclusive: given both it raises nothing for that, runs the find and then
\* the delete (what the find listed is printed before the deletion list),
\* and given neither it ends normally having done nothing
C15_ModesExclusiveInSyncOnly ==
    (tool \in Tools /\ Parsed) =>
        /\ (tool = "sync" /\ ModesSelected # 1) =>
             (pc = "error" /\ err.type = "ValueError" /\ err.line = 224 /\ NothingExecuted)
        /\ (tool = "sync" /\ ModesSelected = 1 /\ SelectorsGiven # 1) =>
             (pc = "error" /\ err.type = "ValueError" /\ err.line = 230 /\ NothingExecuted)
        /\ (tool = "fork" /\ SelectorsGiven # 1) =>
             (pc = "error" /\ err.type = "RuntimeError" /\ err.line = 149 /\ NothingExecuted)
        /\ (tool = "update" /\ args.wandb_entity # None) =>
             /\ pc = "error" => err.line \in {320, 323}
             /\ ModesSelected = 0 => (pc = "done" /\ NothingExecuted)
             /\ (ModesSelected = 2 /\ pc \in {"confirm_delete", "delete_calls"}) =>
                  /\ printed[Len(printed)].what = "delete"
                  /\ \A k \in 1..(Len(printed) - 1) : printed[k].what = "found"

\* find and delete were given together: the find printed its list, then the
\* delete was made
C15_Witness ==
    /\ tool = "update" /\ pc = "done"
    /\ ModesSelected = 2
    /\ Len(printed) = 2 /\ printed[1].what = "found" /\ printed[2].what = "delete"
    /\ Len(effects) > 0

\* ---------------------------------------------------------------------------
\* configuration errors

\* the errors an invocation ends in because of its flag combination: those of
\* the three parse_args, the missing forked run directory (wandb_fork.py line
\* 239), Path(args.results_dir, run.name) of a download given --run-dirs
\* (wandb_sync.py line 290) and " ".join(command) of --upload-checkpoints
\* given no --checkpoint-name (wandb_sync.py lines 539 and 547)
ConfigurationError(t, e) ==
    \/ t = "fork" /\ e.line \in {149, 152, 155, 239}
    \/ t = "update" /\ e.line \in {147, 150, 153, 156}
    \/ t = "sync" /\ e.line \in {224, 230, 233, 236, 290, 539, 547}

\* C16: every configuration error is raised before the first remote call of
\* the invocation, that is by the parse_args step, which precedes api.runs
C16_ConfigurationErrorsBeforeRemoteCalls ==
    [][(tool \in Tools /\ pc # "error" /\ pc' = "error" /\ ConfigurationError(tool, err'))
          => pc = "parse_args"]_vars

\* ---------------------------------------------------------------------------
\* staging the checkpoint twice

\* C17: the staging of the checkpoint symlink is idempotent: when an upload
\* that ended without error is made again, the symlink that is there is left
\* untouched (no symlink is removed or created), the disk is left as it was
\* and no error comes from the creation of the symlink
C17_SecondUploadLeavesSymlinkUntouched ==
    [][(tool = "upload_twice" /\ idx = 1 /\ idx' = 2 /\ err = NoErr)
          => /\ fs' = fs
             /\ err'.line # 518
             /\ fs.link # "absent" => effects' = effects]_vars

\* ---------------------------------------------------------------------------
\* filter_runs

\* the five conditions a run has to satisfy
NotSkippedById(r) == r.id \notin Range(args.skip_run_ids)
SelectedById(r) == args.select_run_ids = <<>> \/ r.id \in Range(args.select_run_ids)
NotSkippedByName(r) ==
    \A k \in 1..Len(args.skip_run_names_regex) : ~ReSearch(args.skip_run_names_regex[k], r.name)
SelectedByName(r) ==
    \/ args.select_run_names_regex = <<>>
    \/ \E k \in 1..Len(args.select_run_names_regex) :
         ReSearch(args.select_run_names_regex[k], r.name)
OwnedByUser(r) == args.username = None \/ r.user.username = args.username

Satisfies(r) ==
    /\ NotSkippedById(r) /\ SelectedById(r)
    /\ NotSkippedByName(r) /\ SelectedByName(r)
    /\ OwnedByUser(r)

NoFilters ==
    /\ args.skip_run_ids = <<>> /\ args.select_run_ids = <<>>
    /\ args.skip_run_names_regex = <<>> /\ args.select_run_names_regex = <<>>
    /\ args.username = None

\* positions of the project whose run satisfies every condition
Passing == { i \in 1..Len(runs) : Satisfies(runs[i]) }

\* C18: filter_runs returns, in project order, exactly the runs that satisfy
\* all five conditions; a run both selected and skipped is left out, and
\* with no filter every run is returned
C18_FilterRunsReturnsExactlyThePassingRuns ==
    (tool = "filter_runs" /\ pc = "returned") =>
        /\ Len(returned) = Cardinality(Passing)
        /\ \A k \in 1..Len(returned) :
             \E i \in Passing :
               /\ returned[k] = runs[i]
               /\ Cardinality({ j \in Passing : j < i }) = k - 1
        /\ \A i \in 1..Len(runs) :
             (runs[i].id \in Range(args.skip_run_ids)
              /\ runs[i].id \in Range(args.select_run_ids))
                => runs[i] \notin Range(returned)
        /\ NoFilters => returned = runs

\* a run that is both selected and skipped was left out while another run
\* was returned
C18_Witness ==
    /\ tool = "filter_runs" /\ pc = "returned"
    /\ Len(runs) = 2 /\ Len(returned) = 1
    /\ returned[1] = runs[2]
    /\ runs[1].id \in Range(args.skip_run_ids)
    /\ runs[1].id \in Range(args.select_run_ids)
    /\ args.username # None

\* ---------------------------------------------------------------------------
\* upload_runs: validation and order

\* C19: when upload_runs raises for a run-folder name found under two run
\* directories, or for dangling symlinks found without
\* --remove-missing-symlinks, no symlink has been removed or created and no
\* sync command has been run
C19_ValidationErrorsBeforeAnyMutation ==
    (tool = "sync" /\ pc = "error" /\ err.line \in {446, 467}) =>
        /\ CallsOf("unlink") = <<>>
        /\ CallsOf("symlink") = <<>>
        /\ CallsOf("subprocess.run") = <<>>

\* dangling symlinks stopped an upload that would have staged a checkpoint
C19_Witness ==
    /\ tool = "sync" /\ pc = "error" /\ err.line = 467
    /\ ~args.dry_run /\ args.checkpoint_name # None
    /\ Len(MissingSymlinks(fs, all_wandb_run_folders)) > 0
    /\ Len(all_wandb_dirs) = 2

\* positions of the calls of one kind in effects
PositionsOf(op) == { i \in 1..Len(effects) : effects[i].op = op }

\* the run folder a sync command was built for
Synced == [i \in 1..Len(CallsOf("subprocess.run")) |->
             CallsOf("subprocess.run")[i].target.run_folder]

\* C20: in an upload without --dry-run every symlink creation precedes the
\* first sync subprocess; the sync commands run in run-directory order, the
\* run folders of one directory in ascending order of their names; and when
\* staging a directory fails on its latest-run id no sync command has run,
\* whatever symlinks were created for earlier directories
C20_SymlinksThenCommandsInOrder ==
    (tool = "sync" /\ Parsed /\ UploadMode(args) /\ ~args.dry_run) =>
        /\ \A i \in PositionsOf("symlink"), j \in PositionsOf("subprocess.run") : i < j
        /\ \A i, j \in 1..Len(Synced) :
             i < j => \/ Synced[i].dir < Synced[j].dir
                      \/ /\ Synced[i].dir = Synced[j].dir
                         /\ NameLess(Synced[i].name, Synced[j].name)
        /\ (pc = "error" /\ err.line = 484) => CallsOf("subprocess.run") = <<>>
        /\ Len(Synced) <= Len(commands)
        /\ \A i \in 1..Len(Synced) : Synced[i] = commands[i].run_folder

\* the second directory failed on its latest-run id after the symlink of
\* the first was created
C20_Witness ==
    /\ tool = "sync" /\ pc = "error" /\ err.line = 484
    /\ ~args.dry_run
    /\ Len(CallsOf("symlink")) = 1
    /\ idx = 2

\* two run folders of one directory were synced, then one of the next
C20_WitnessOrder ==
    /\ tool = "sync" /\ pc = "done" /\ ~args.dry_run
    /\ Len(Synced) = 3
    /\ Len(CallsOf("symlink")) = 2

\* ---------------------------------------------------------------------------
\* the sequence of the fork

IsInit(c) == c.op = "init"
IsFinish(c, which) == c.op = "finish" /\ c.target = which
HasForkFrom(c) == "fork_from" \in DOMAIN c.kwargs
HasResume(c) == "resume" \in DOMAIN c.kwargs

\* C21: the calls of the fork tool are, in this order, the init with
\* fork_from = "<resolved run id>?_step=<resolved step>", the finish of the
\* forked run, the init with the resume flag and without fork_from, and
\* the finish of the resumed run, each init after its own prompt; the
\* resume init is made only once the forked run is finished, no init has
\* both fork_from and resume, and with --no-resume there is one init and
\* one prompt
C21_ForkThenFinishThenResume ==
    (tool = "fork" /\ Parsed /\ err.line \notin {149, 152, 155}) =>
        /\ Len(effects) <= 4
        /\ Len(effects) >= 1 =>
             /\ IsInit(effects[1]) /\ HasForkFrom(effects[1]) /\ ~HasResume(effects[1])
             /\ effects[1].kwargs.fork_from = <<run.id, "?_step=", step>>
             /\ run \in Range(runs)
             /\ Len(printed) >= 1 /\ printed[1].what = "fork"
        /\ Len(effects) >= 2 => IsFinish(effects[2], "forked_run") /\ ~args.no_resume
        /\ Len(effects) >= 3 =>
             /\ IsInit(effects[3]) /\ HasResume(effects[3]) /\ ~HasForkFrom(effects[3])
             /\ effects[3].kwargs.resume = args.resume
             /\ Len(printed) = 2 /\ printed[2].what = "resume"
        /\ Len(effects) = 4 => IsFinish(effects[4], "resumed_run")
        /\ \A k \in 1..Len(effects) : ~(HasForkFrom(effects[k]) /\ HasResume(effects[k]))
        /\ pc \in {"init_fork", "init_resume"} => ForkAffirmative(response)
        /\ pc = "init_resume" => Len(effects) = 2
        /\ pc = "done" => Len(effects) = (IF args.no_resume THEN 1 ELSE 4)
        /\ args.no_resume => Len(effects) <= 1 /\ Len(printed) <= 1
                             /\ pc \notin {"finish_fork", "confirm_resume", "init_resume", "finish_resume"}

\* the whole sequence was made: fork, finish, resume, finish
C21_Witness ==
    /\ tool = "fork" /\ pc = "done" /\ ~args.no_resume
    /\ Len(effects) = 4 /\ Len(printed) = 2
    /\ step_reduction

\* ---------------------------------------------------------------------------
\* download_runs

DownloadMode == tool = "sync" /\ Parsed /\ err.line \notin {224, 230, 233, 236}
                /\ ~UploadMode(args)

\* the download calls made for file f of the k-th run
DownloadsOf(k, f) ==
    SelectSeq(effects, LAMBDA c :
        c.op = "download" /\ c.target = [run |-> keep_runs[k].id, name |-> f.name])

\* C22: a file that exists locally is downloaded only with
\* --overwrite-existing, and then with replace; without the flag no
\* download is called for it and the files after it are still handled; a
\* file that does not exist locally is downloaded; under --dry-run no
\* download call is made at all
C22_ExistingFilesKeptUnlessOverwrite ==
    DownloadMode =>
        /\ args.dry_run => CallsOf("download") = <<>>
        /\ \A k \in 1..Len(fs) : \A i \in 1..Len(fs[k]) :
             LET f == fs[k][i]
                 calls == DownloadsOf(k, f)
             IN  /\ (f.exists /\ ~args.overwrite_existing) => calls = <<>>
                 /\ (f.exists /\ args.overwrite_existing /\ ~args.dry_run) =>
                      (Len(calls) = 1 /\ calls[1].kwargs.replace)
                 /\ (~f.exists /\ ~args.dry_run) =>
                      (Len(calls) = 1 /\ ~calls[1].kwargs.replace)
        /\ \A c \in Range(CallsOf("download")) :
             \E k \in 1..Len(fs) : \E i \in 1..Len(fs[k]) :
               c.target = [run |-> keep_runs[k].id, name |-> fs[k][i].name]

\* the first file exists and was skipped, the one after it was downloaded
C22_Witness ==
    /\ DownloadMode /\ pc = "done"
    /\ ~args.overwrite_existing /\ ~args.dry_run
    /\ Len(fs) >= 1 /\ Len(fs[1]) = 2
    /\ fs[1][1].exists /\ ~fs[1][2].exists
    /\ Len(CallsOf("download")) = 1

\* ---------------------------------------------------------------------------
\* what a confirmed delete deletes

\* a delete that was confirmed and ran to its end
DeleteCompleted ==
    /\ tool = "update" /\ pc = "done" /\ ~args.dry_run
    /\ CallsOf("delete") # <<>>

\* the objects of the delete calls, as they are printed
DeletedStrs == [i \in 1..Len(CallsOf("delete")) |-> ObjStr(CallsOf("delete")[i].target)]

\* C23: in a confirmed delete without --dry-run the objects deleted are
\* exactly the objects printed before the prompt, each object is deleted
\* exactly once, also when several delete regexes match it, and every file
\* deletion precedes every artifact deletion
C23_PrintedObjectsDeletedExactlyOnce ==
    DeleteCompleted =>
        LET calls == CallsOf("delete")
        IN  /\ printed[Len(printed)].what = "delete"
            /\ Range(DeletedStrs) = Range(printed[Len(printed)].objs)
            /\ \A i, j \in 1..Len(calls) : calls[i].target = calls[j].target => i = j
            /\ \A i, j \in 1..Len(calls) :
                 (calls[i].target.kind = "file" /\ calls[j].target.kind = "artifact") => i < j

\* ---------------------------------------------------------------------------
\* failures of remote calls and of sync commands

\* C24: a failure is fatal and nothing is retried: when a sync command
\* failed, the commands invoked are the commands of the list up to the one
\* that failed, each invoked once, and no later one; when a delete call
\* failed, the delete calls made are those up to the one that failed and no
\* further one
C24_FailureEndsTheInvocation ==
    /\ (tool = "sync" /\ pc = "error" /\ err.line = 554) =>
         /\ Len(CallsOf("subprocess.run")) = idx
         /\ idx <= Len(commands)
         /\ \A i \in 1..idx : CallsOf("subprocess.run")[i].target = commands[i]
    /\ (tool = "update" /\ pc = "error" /\ err.line \in {320, 323}) =>
         LET targets == all_delete_files \o all_delete_artifacts
             calls == CallsOf("delete")
         IN  /\ Len(calls) = err.msg[2]
             /\ Len(calls) <= Len(targets)
             /\ \A i \in 1..Len(calls) : calls[i].target = targets[i]
             /\ err.line = 320 <=> Len(calls) <= Len(all_delete_files)

\* the second of three sync commands failed: the third was never invoked
C24_Witness ==
    /\ tool = "sync" /\ pc = "error" /\ err.line = 554
    /\ idx = 2 /\ Len(commands) = 3
    /\ Len(CallsOf("subprocess.run")) = 2

\* the first of several delete calls failed
C24_WitnessDelete ==
    /\ tool = "update" /\ pc = "error" /\ err.line = 320
    /\ Len(CallsOf("delete")) = 1
    /\ Len(all_delete_files) + Len(all_delete_artifacts) >= 2

=============================================================================
